---------------------------- MODULE Spec2Model ----------------------------
(***************************************************************************)
(* A model of the CAD dimension reader: the DXF tag-pair scanner and the   *)
(* cursor-based section/entity walkers of DXFLoader, the colour resolver,  *)
(* the mesh/loop analysis of app.js (bend statistics, loop walker, loop    *)
(* summaries, merged report) and the per-file driver handleFiles.          *)
(*                                                                         *)
(* Each subsystem has one variable holding its whole state as a record and *)
(* one specification: Spec (DXFLoader.parse), SpecScan (parsePairs),       *)
(* SpecColor (_resolveColor), SpecBends (summarizeBends), SpecLoops (loop  *)
(* walker and analyzeLineGeometry), SpecMerge (mergeAnalyses), SpecFiles   *)
(* (handleFiles).  A specification leaves the other variables at Idle.     *)
(***************************************************************************)
EXTENDS Integers, Sequences, FiniteSets, TLC

VARIABLES m, scan, col, mesh, walk, rep, files

vars == <<m, scan, col, mesh, walk, rep, files>>

Idle == [pc |-> "idle"]

(***************************************************************************)
(* Generic sequence helpers.                                               *)
(***************************************************************************)
RECURSIVE SeqsUpTo(_, _)
SeqsUpTo(S, n) ==
  IF n = 0 THEN {<<>>}
  ELSE LET shorter == SeqsUpTo(S, n - 1)
       IN  shorter \cup {Append(s, x) : s \in {t \in shorter : Len(t) = n - 1}, x \in S}

RECURSIVE Flatten(_)
Flatten(ss) == IF ss = <<>> THEN <<>> ELSE Head(ss) \o Flatten(Tail(ss))

Range(s) == {s[x] : x \in DOMAIN s}

MinOf(S) == CHOOSE x \in S : \A y \in S : x <= y

MaxOf(S) == CHOOSE x \in S : \A y \in S : x >= y

Abs(x) == IF x < 0 THEN 0 - x ELSE x

(***************************************************************************)
(* JavaScript values.  Numbers are integers; NaN and null are two integers *)
(* outside every range the model uses, the null string is a string no      *)
(* token equals.                                                           *)
(***************************************************************************)
NaN == 0 - 1000000

NullInt == 0 - 2000000

NullStr == "<null>"

IsFinite(x) == x # NaN /\ x # NullInt

(***************************************************************************)
(* Value lines.  A value is a string token; String.prototype.trim,         *)
(* toUpperCase, parseInt(v, 10) and parseFloat(v) are given by what they   *)
(* return on the tokens of the model's vocabulary.  Tokens not listed are  *)
(* already trimmed and upper-case and do not start with a number.          *)
(***************************************************************************)
TrimTable ==
  (" L1 " :> "L1") @@ (" B1 " :> "B1") @@ ("circle " :> "circle") @@
  (" 1" :> "1") @@ ("  " :> "")

Trim(v) == IF v \in DOMAIN TrimTable THEN TrimTable[v] ELSE v

UpperTable ==
  ("circle" :> "CIRCLE") @@ ("section" :> "SECTION") @@ ("endsec" :> "ENDSEC") @@
  ("entities" :> "ENTITIES") @@ ("l1" :> "L1")

ToUpperCase(v) == IF v \in DOMAIN UpperTable THEN UpperTable[v] ELSE v

TrimUpper(v) == ToUpperCase(Trim(v))

\* parseFloat: leading white space skipped, the longest numeric prefix read.
FloatTable ==
  ("0" :> 0) @@ ("1" :> 1) @@ ("2" :> 2) @@ ("3" :> 3) @@ ("4" :> 4) @@
  ("5" :> 5) @@ ("7" :> 7) @@ ("10" :> 10) @@ ("15" :> 15) @@ ("250" :> 250) @@
  ("255" :> 255) @@ ("256" :> 256) @@ ("300" :> 300) @@ ("-1" :> (0 - 1)) @@
  ("-5" :> (0 - 5)) @@ ("1.0" :> 1) @@ (" 1" :> 1) @@ ("2mm" :> 2) @@
  ("65280" :> 65280) @@ ("16711680" :> 16711680) @@ ("90" :> 90) @@ ("350" :> 350) @@
  ("360" :> 360) @@ ("720" :> 720) @@ ("-90" :> (0 - 90))

ParseFloat(v) == IF v \in DOMAIN FloatTable THEN FloatTable[v] ELSE NaN

\* parseInt(v, 10): on the vocabulary (whose numerals are whole) the same
\* prefix as parseFloat.
ParseInt(v) == IF v \in DOMAIN FloatTable THEN FloatTable[v] ELSE NaN

(***************************************************************************)
(* Tag pairs and entity field tables.  The Map that _collectEntityData     *)
(* builds (code -> values in order of appearance) is kept as the collected *)
(* run of pairs; FieldValues reads one code's list from it.                *)
(***************************************************************************)
Pair(c, v) == [code |-> c, value |-> v]

FieldValues(data, code) ==
  LET hits == SelectSeq(data, LAMBDA pr : pr.code = code)
  IN  [x \in DOMAIN hits |-> hits[x].value]

\* index is 0-based as in the source.
getNumber(data, code, index, fallback) ==
  LET arr == FieldValues(data, code)
  IN  IF index >= Len(arr) THEN fallback
      ELSE LET value == ParseFloat(arr[index + 1])
           IN  IF IsFinite(value) THEN value ELSE fallback

getInteger(data, code, index, fallback) ==
  LET arr == FieldValues(data, code)
  IN  IF index >= Len(arr) THEN fallback
      ELSE LET value == ParseInt(arr[index + 1])
           IN  IF value = NaN THEN fallback ELSE value

getString(data, code, index, fallback) ==
  LET arr == FieldValues(data, code)
  IN  IF index >= Len(arr) THEN fallback ELSE Trim(arr[index + 1])

\* The first index at or after `index` holding a code-0 pair, or Len + 1.
NextMarker(pairs, index) ==
  IF \E x \in index .. Len(pairs) : pairs[x].code = 0
  THEN MinOf({x \in index .. Len(pairs) : pairs[x].code = 0})
  ELSE IF index > Len(pairs) THEN index ELSE Len(pairs) + 1

collectEntityData(pairs, index) ==
  LET next == NextMarker(pairs, index)
  IN  [data |-> SubSeq(pairs, index, next - 1), next |-> next]

(***************************************************************************)
(* Colours.                                                                *)
(***************************************************************************)
DEFAULT_COLOR == 4162552

ACI_COLOR_MAP ==
  (1 :> 16711680) @@ (2 :> 16776960) @@ (3 :> 65280) @@ (4 :> 65535) @@
  (5 :> 255) @@ (6 :> 16711935) @@ (7 :> 16777215) @@ (8 :> 8421504) @@
  (9 :> 12632256)

\* Math.round(x) for x = num / den >= 0.
RoundDiv(num, den) == (2 * num + den) \div (2 * den)

\* The HSV formula on exact fractions: every quantity is kept times 480.
computeAciColor(aci) ==
  LET row == (aci - 10) \div 10
      colm == (aci - 10) % 10
      hue == colm * 36
      val == 10 * (48 - row)
      c == IF row < 2 THEN val \div 2 ELSE val
      h5 == (3 * colm) % 10
      x == (c * (5 - Abs(h5 - 5))) \div 5
      mm == val - c
      r == IF hue < 60 THEN c ELSE IF hue < 120 THEN x ELSE IF hue < 240 THEN 0
           ELSE IF hue < 300 THEN x ELSE c
      g == IF hue < 60 THEN x ELSE IF hue < 180 THEN c ELSE IF hue < 240 THEN x ELSE 0
      b == IF hue < 120 THEN 0 ELSE IF hue < 180 THEN x ELSE IF hue < 300 THEN c ELSE x
      rInt == RoundDiv((r + mm) * 255, 480)
      gInt == RoundDiv((g + mm) * 255, 480)
      bInt == RoundDiv((b + mm) * 255, 480)
  IN  rInt * 65536 + gInt * 256 + bInt

aciToHex(aci) ==
  IF aci = 0 \/ aci = 256 THEN NullInt
  ELSE IF aci \in DOMAIN ACI_COLOR_MAP THEN ACI_COLOR_MAP[aci]
  ELSE IF aci >= 250 /\ aci <= 255
       THEN LET gray == RoundDiv((aci - 250) * 255, 5) IN gray * 65536 + gray * 256 + gray
  ELSE IF aci >= 10 /\ aci <= 249 THEN computeAciColor(aci)
  ELSE NullInt

\* layers: a function from layer name to stored colour (state.layers).
resolveColor_LayerFirst(data, layers) ==
  LET layer == getString(data, 8, 0, NullStr)
      trueColor == getInteger(data, 420, 0, NullInt)
      aci == getInteger(data, 62, 0, NullInt)
  IN  IF layer # NullStr /\ layer # "" /\ layer \in DOMAIN layers THEN layers[layer]
      ELSE IF trueColor # NullInt THEN trueColor
      ELSE IF aci # NullInt /\ aciToHex(aci) # NullInt THEN aciToHex(aci)
      ELSE DEFAULT_COLOR

resolveColor(data, layers) ==
  LET trueColor == getInteger(data, 420, 0, NullInt)
      aci == getInteger(data, 62, 0, NullInt)
      mapped == IF aci # NullInt THEN aciToHex(aci) ELSE NullInt
      layer == getString(data, 8, 0, NullStr)
  IN  IF trueColor # NullInt THEN trueColor
      ELSE IF mapped # NullInt THEN mapped
      ELSE IF layer # NullStr /\ layer # "" /\ layer \in DOMAIN layers THEN layers[layer]
      ELSE DEFAULT_COLOR

(***************************************************************************)
(* SpecColor: _resolveColor applied to one entity field table under one    *)
(* layer table.                                                            *)
(***************************************************************************)
TrueColorFields == {<<>>, <<Pair(420, "65280")>>, <<Pair(420, "0")>>, <<Pair(420, "BYLAYER")>>,
                    <<Pair(420, "BYLAYER"), Pair(420, "255")>>}

AciFields == {<<>>, <<Pair(62, "1")>>, <<Pair(62, "7")>>, <<Pair(62, "0")>>, <<Pair(62, "256")>>,
              <<Pair(62, "15")>>, <<Pair(62, "250")>>, <<Pair(62, "255")>>, <<Pair(62, "-5")>>,
              <<Pair(62, "300")>>, <<Pair(62, "RED")>>}

LayerFields == {<<>>, <<Pair(8, "L1")>>, <<Pair(8, " L1 ")>>, <<Pair(8, "l1")>>,
                <<Pair(8, "L2")>>, <<Pair(8, "  ")>>}

LayerTables == {<<>>, ("L1" :> 255), ("L1" :> 0) @@ ("L2" :> DEFAULT_COLOR),
                ("L2" :> 16711680)}

ColorInit ==
  \E tc \in TrueColorFields, ac \in AciFields, ly \in LayerFields, tab \in LayerTables,
     order \in {1, 2} :
    col = [pc |-> "ready",
           data |-> IF order = 1 THEN ly \o ac \o tc ELSE tc \o ac \o ly,
           layers |-> tab,
           color |-> NullInt]

ColorResolve ==
  /\ col.pc = "ready"
  /\ col' = [col EXCEPT !.pc = "resolved", !.color = resolveColor(col.data, col.layers)]
  /\ UNCHANGED <<m, scan, mesh, walk, rep, files>>

InitColor ==
  /\ ColorInit
  /\ m = Idle /\ scan = Idle /\ mesh = Idle /\ walk = Idle /\ rep = Idle /\ files = Idle

NextColor == ColorResolve

SpecColor == InitColor /\ [][NextColor]_vars

(***************************************************************************)
(* C1.  Colour precedence, stated on the raw pairs of the entity: the      *)
(* first code-420 value when it reads as an integer; otherwise the colour  *)
(* the first code-62 value maps to when it reads as an integer that maps   *)
(* to a concrete colour; otherwise the stored colour of the layer named by *)
(* the first code-8 value when the layer table has it; otherwise the       *)
(* global default.                                                         *)
(***************************************************************************)
FirstOf(data, code) ==
  IF \E x \in DOMAIN data : data[x].code = code
  THEN data[MinOf({x \in DOMAIN data : data[x].code = code})].value
  ELSE NullStr

HasTrueColor(data) == FirstOf(data, 420) # NullStr /\ ParseInt(FirstOf(data, 420)) # NaN

HasMappedAci(data) ==
  /\ FirstOf(data, 62) # NullStr
  /\ ParseInt(FirstOf(data, 62)) # NaN
  /\ aciToHex(ParseInt(FirstOf(data, 62))) # NullInt

HasLayerColor(data, layers) ==
  FirstOf(data, 8) # NullStr /\ Trim(FirstOf(data, 8)) \in DOMAIN layers

C1_ColorPrecedence ==
  col.pc = "resolved" =>
    /\ HasTrueColor(col.data) => col.color = ParseInt(FirstOf(col.data, 420))
    /\ ~HasTrueColor(col.data) /\ HasMappedAci(col.data)
         => col.color = aciToHex(ParseInt(FirstOf(col.data, 62)))
    /\ ~HasTrueColor(col.data) /\ ~HasMappedAci(col.data) /\ HasLayerColor(col.data, col.layers)
         => col.color = col.layers[Trim(FirstOf(col.data, 8))]
    /\ ~HasTrueColor(col.data) /\ ~HasMappedAci(col.data) /\ ~HasLayerColor(col.data, col.layers)
         => col.color = DEFAULT_COLOR

\* An entity carrying both a true colour and a mappable indexed colour, on a
\* layer with a stored colour, has been resolved to the true colour.
C1_Witness ==
  /\ col.pc = "resolved"
  /\ HasTrueColor(col.data) /\ HasMappedAci(col.data) /\ HasLayerColor(col.data, col.layers)
  /\ col.color = 65280
  /\ col.color # aciToHex(ParseInt(FirstOf(col.data, 62)))
  /\ col.color # col.layers[Trim(FirstOf(col.data, 8))]

(***************************************************************************)
(* SpecScan: parsePairs.  The text is a sequence of characters; the line   *)
(* endings are normalised, the text is split into lines and the loop reads *)
(* them in (code line, value line) pairs.                                  *)
(***************************************************************************)
LF == "\n"

CR == "\r"

ScanAlphabet == {LF, CR, " ", "1", "a"}

MaxTextLen == 5

\* text.replace(/\r\n/g, '\n').replace(/\r/g, '\n')
RECURSIVE normalizeNewlines(_)
normalizeNewlines(t) ==
  IF t = <<>> THEN <<>>
  ELSE IF Head(t) = CR /\ Len(t) >= 2 /\ t[2] = LF THEN <<LF>> \o normalizeNewlines(Tail(Tail(t)))
  ELSE IF Head(t) = CR THEN <<LF>> \o normalizeNewlines(Tail(t))
  ELSE <<Head(t)>> \o normalizeNewlines(Tail(t))

\* normalized.split('\n'): always at least one line.
RECURSIVE splitLines(_)
splitLines(t) ==
  IF \A x \in DOMAIN t : t[x] # LF THEN <<t>>
  ELSE LET cut == MinOf({x \in DOMAIN t : t[x] = LF})
       IN  <<SubSeq(t, 1, cut - 1)>> \o splitLines(SubSeq(t, cut + 1, Len(t)))

IsSpace(ch) == ch \in {" ", LF, CR}

IsDigit(ch) == ch \in {"0", "1", "2", "3", "4", "5", "6", "7", "8", "9"}

DigitValue(ch) ==
  CASE ch = "0" -> 0 [] ch = "1" -> 1 [] ch = "2" -> 2 [] ch = "3" -> 3 [] ch = "4" -> 4
    [] ch = "5" -> 5 [] ch = "6" -> 6 [] ch = "7" -> 7 [] ch = "8" -> 8 [] ch = "9" -> 9

RECURSIVE trimLeft(_)
trimLeft(l) == IF l # <<>> /\ IsSpace(Head(l)) THEN trimLeft(Tail(l)) ELSE l

RECURSIVE trimRight(_)
trimRight(l) ==
  IF l # <<>> /\ IsSpace(l[Len(l)]) THEN trimRight(SubSeq(l, 1, Len(l) - 1)) ELSE l

trimChars(l) == trimRight(trimLeft(l))

\* The value of the longest run of digits at the head of l, read after acc.
RECURSIVE digitsValue(_, _)
digitsValue(l, acc) ==
  IF l # <<>> /\ IsDigit(Head(l)) THEN digitsValue(Tail(l), 10 * acc + DigitValue(Head(l)))
  ELSE acc

\* parseInt(l, 10): white space, an optional sign, then at least one digit.
parseIntChars(l) ==
  LET body == trimLeft(l)
      signed == body # <<>> /\ Head(body) \in {"-", "+"}
      digits == IF signed THEN Tail(body) ELSE body
  IN  IF digits = <<>> \/ ~IsDigit(Head(digits)) THEN NaN
      ELSE IF signed /\ Head(body) = "-" THEN 0 - digitsValue(digits, 0)
      ELSE digitsValue(digits, 0)

ScanStart(text) ==
  [pc |-> "loop", text |-> text, lines |-> splitLines(normalizeNewlines(text)),
   i |-> 1, pairs |-> <<>>]

\* One iteration of the for loop of parsePairs at 1-based line index s.i; a
\* variant in which a blank code line also swallows the line after it.
scanIteration_BlankEatsValue(s) ==
  LET codeTrimmed == trimChars(s.lines[s.i])
      code == parseIntChars(codeTrimmed)
  IN  IF s.i + 1 > Len(s.lines) THEN [s EXCEPT !.i = s.i + 1, !.pc = "done"]
      ELSE IF codeTrimmed = <<>> \/ code = NaN THEN [s EXCEPT !.i = s.i + 2]
      ELSE [s EXCEPT !.i = s.i + 2, !.pairs = Append(s.pairs, Pair(code, s.lines[s.i + 1]))]

scanIteration(s) ==
  LET codeTrimmed == trimChars(s.lines[s.i])
      code == parseIntChars(codeTrimmed)
  IN  IF codeTrimmed = <<>> THEN [s EXCEPT !.i = s.i + 1]
      ELSE IF s.i + 1 > Len(s.lines) THEN [s EXCEPT !.i = s.i + 1, !.pc = "done"]
      ELSE IF code = NaN THEN [s EXCEPT !.i = s.i + 2]
      ELSE [s EXCEPT !.i = s.i + 2, !.pairs = Append(s.pairs, Pair(code, s.lines[s.i + 1]))]

ScanInit == \E text \in SeqsUpTo(ScanAlphabet, MaxTextLen) : scan = ScanStart(text)

ScanIterate ==
  /\ scan.pc = "loop" /\ scan.i <= Len(scan.lines)
  /\ scan' = scanIteration(scan)
  /\ UNCHANGED <<m, col, mesh, walk, rep, files>>

ScanReturn ==
  /\ scan.pc = "loop" /\ scan.i > Len(scan.lines)
  /\ scan' = [scan EXCEPT !.pc = "done"]
  /\ UNCHANGED <<m, col, mesh, walk, rep, files>>

InitScan ==
  /\ ScanInit
  /\ m = Idle /\ col = Idle /\ mesh = Idle /\ walk = Idle /\ rep = Idle /\ files = Idle

NextScan == ScanIterate \/ ScanReturn

SpecScan == InitScan /\ [][NextScan]_vars

(***************************************************************************)
(* C6.  The scanner equals the reference reading of the lines: a blank     *)
(* code line consumes itself; any other code line consumes itself and the  *)
(* next line and emits (code, value) when it reads as an integer; a        *)
(* non-blank code line with no line after it ends the scan.                *)
(***************************************************************************)
IsBlankLine(l) == \A x \in DOMAIN l : IsSpace(l[x])

RECURSIVE RefScan(_)
RefScan(ls) ==
  IF ls = <<>> THEN <<>>
  ELSE IF IsBlankLine(Head(ls)) THEN RefScan(Tail(ls))
  ELSE IF Len(ls) = 1 THEN <<>>
  ELSE (IF parseIntChars(Head(ls)) # NaN
        THEN <<Pair(parseIntChars(Head(ls)), ls[2])>> ELSE <<>>) \o RefScan(Tail(Tail(ls)))

ERR_NOT_STRING == "DXFLoader.parse requires a DXF file as a string."

ERR_NO_DATA == "DXFLoader: the provided file does not contain any DXF data."

ERR_NO_ENTITIES == "DXF file contained no supported entities."

UnknownUnits == 0 - 3000000

circleSegments == 64

DEFAULT_ARC_SEGMENT_DEG == 10

NoObject ==
  [kind |-> "null", verts |-> <<>>, curve |-> <<>>, xform |-> <<>>, color |-> NullInt,
   layer |-> NullStr, children |-> <<>>]

Truthy(str) == str # NullStr /\ str # ""

createLine(points, closed, color) ==
  LET pts == IF closed /\ Len(points) > 1 /\ points[1] # points[Len(points)]
             THEN Append(points, points[1]) ELSE points
  IN  [NoObject EXCEPT !.kind = IF closed THEN "LineLoop" ELSE "Line",
                       !.verts = pts, !.color = color]

applyLayerToObject(object, data) ==
  LET layerName == getString(data, 8, 0, NullStr)
  IN  IF Truthy(layerName) THEN [object EXCEPT !.layer = layerName] ELSE object

parseLine_KeepDegenerate(pairs, index, layers) ==
  LET c == collectEntityData(pairs, index)
      start == <<getNumber(c.data, 10, 0, 0), getNumber(c.data, 20, 0, 0), getNumber(c.data, 30, 0, 0)>>
      end == <<getNumber(c.data, 11, 0, 0), getNumber(c.data, 21, 0, 0), getNumber(c.data, 31, 0, 0)>>
  IN  [object |-> applyLayerToObject(createLine(<<start, end>>, FALSE, resolveColor(c.data, layers)), c.data),
       next |-> c.next]

parseLine(pairs, index, layers) ==
  LET c == collectEntityData(pairs, index)
      start == <<getNumber(c.data, 10, 0, 0), getNumber(c.data, 20, 0, 0), getNumber(c.data, 30, 0, 0)>>
      end == <<getNumber(c.data, 11, 0, 0), getNumber(c.data, 21, 0, 0), getNumber(c.data, 31, 0, 0)>>
  IN  IF start = end THEN [object |-> NoObject, next |-> c.next]
      ELSE [object |-> applyLayerToObject(createLine(<<start, end>>, FALSE, resolveColor(c.data, layers)), c.data),
            next |-> c.next]

\* The circleSegments points around the centre are closed by createLine with
\* a copy of the first one (radius > 0 makes first and last differ).
parseCircle(pairs, index, layers) ==
  LET c == collectEntityData(pairs, index)
      center == <<getNumber(c.data, 10, 0, 0), getNumber(c.data, 20, 0, 0), getNumber(c.data, 30, 0, 0)>>
      radius == getNumber(c.data, 40, 0, 0)
      segments == IF circleSegments > 16 THEN circleSegments ELSE 16
      line == [NoObject EXCEPT !.kind = "LineLoop",
                               !.curve = center \o <<radius, segments + 1>>,
                               !.color = resolveColor(c.data, layers)]
  IN  IF radius <= 0 THEN [object |-> NoObject, next |-> c.next]
      ELSE [object |-> applyLayerToObject(line, c.data), next |-> c.next]

\* Angles are whole degrees and the arc is kept as centre, radius, number of
\* points, start and sweep, the angles in units of pi/180 (degToRad scales by
\* a positive constant): point number step is at start + sweep * step / steps.
parseArc(pairs, index, layers) ==
  LET c == collectEntityData(pairs, index)
      center == <<getNumber(c.data, 10, 0, 0), getNumber(c.data, 20, 0, 0), getNumber(c.data, 30, 0, 0)>>
      radius == getNumber(c.data, 40, 0, 0)
      startAngleDeg == getNumber(c.data, 50, 0, 0)
      endAngleDeg == getNumber(c.data, 51, 0, 0)
      raw == endAngleDeg - startAngleDeg
      sweep == IF raw <= 0 THEN raw + 360 ELSE raw
      ceil == IF sweep >= 0 THEN (sweep + DEFAULT_ARC_SEGMENT_DEG - 1) \div DEFAULT_ARC_SEGMENT_DEG
              ELSE 0 - ((0 - sweep) \div DEFAULT_ARC_SEGMENT_DEG)
      steps == IF ceil > 8 THEN ceil ELSE 8
      line == [NoObject EXCEPT !.kind = "Line",
                               !.curve = center \o <<radius, steps + 1, startAngleDeg, sweep>>,
                               !.color = resolveColor(c.data, layers)]
  IN  IF radius <= 0 THEN [object |-> NoObject, next |-> c.next]
      ELSE [object |-> applyLayerToObject(line, c.data), next |-> c.next]

\* blocks: a function from block name to the children of the block's Group.
parseInsert(pairs, index, blocks) ==
  LET c == collectEntityData(pairs, index)
      blockName == getString(c.data, 2, 0, NullStr)
      instance == [NoObject EXCEPT
                     !.kind = "Group",
                     !.children = blocks[blockName],
                     !.xform = <<getNumber(c.data, 10, 0, 0), getNumber(c.data, 20, 0, 0),
                                 getNumber(c.data, 30, 0, 0), getNumber(c.data, 41, 0, 1),
                                 getNumber(c.data, 42, 0, 1), getNumber(c.data, 43, 0, 1),
                                 getNumber(c.data, 50, 0, 0)>>]
  IN  IF ~Truthy(blockName) \/ blockName \notin DOMAIN blocks
      THEN [object |-> NoObject, next |-> c.next]
      ELSE [object |-> applyLayerToObject(instance, c.data), next |-> c.next]

\* group.add(object) in the walker that called _parseEntity, whose cursor
\* becomes next: `if (object) group.add(object); return next;`
addObject(s, target, object, next) ==
  IF target = "entities"
  THEN [s EXCEPT !.pc = "entities", !.j = next,
                 !.group = IF object.kind = "null" THEN @ ELSE Append(@, object)]
  ELSE [s EXCEPT !.pc = "blockentities", !.k = next,
                 !.blockGroup = IF object.kind = "null" THEN @ ELSE Append(@, object)]

countEntity(counts, type) ==
  (type :> ((IF type \in DOMAIN counts THEN counts[type] ELSE 0) + 1)) @@ counts

\* _parseEntity at the code-0 pair `index`, called by the walker `target`.
\* A POLYLINE enters the vertex loop of _parsePolyline; every other type is
\* handled in one step.  The entity types are those of the model's drawings.
parseEntity_NoSkip(s, index, target) ==
  LET type == TrimUpper(s.pairs[index].value)
      counted == [s EXCEPT !.counts = countEntity(@, type)]
      parsed ==
        CASE type = "LINE" -> parseLine(s.pairs, index + 1, s.layers)
          [] type = "CIRCLE" -> parseCircle(s.pairs, index + 1, s.layers)
          [] type = "ARC" -> parseArc(s.pairs, index + 1, s.layers)
          [] type = "INSERT" -> parseInsert(s.pairs, index + 1, s.blocks)
          [] OTHER -> [object |-> NoObject, next |-> index]
  IN  IF type = "POLYLINE"
      THEN [counted EXCEPT !.pc = "polyline",
                           !.p = collectEntityData(s.pairs, index + 1).next,
                           !.plBase = index + 1, !.plVerts = <<>>, !.plCaller = target]
      ELSE addObject(counted, target, parsed.object, parsed.next)

parseEntity(s, index, target) ==
  LET type == TrimUpper(s.pairs[index].value)
      counted == [s EXCEPT !.counts = countEntity(@, type)]
      parsed ==
        CASE type = "LINE" -> parseLine(s.pairs, index + 1, s.layers)
          [] type = "CIRCLE" -> parseCircle(s.pairs, index + 1, s.layers)
          [] type = "ARC" -> parseArc(s.pairs, index + 1, s.layers)
          [] type = "INSERT" -> parseInsert(s.pairs, index + 1, s.blocks)
          [] OTHER -> [object |-> NoObject, next |-> collectEntityData(s.pairs, index + 1).next]
  IN  IF type = "POLYLINE"
      THEN [counted EXCEPT !.pc = "polyline",
                           !.p = collectEntityData(s.pairs, index + 1).next,
                           !.plBase = index + 1, !.plVerts = <<>>, !.plCaller = target]
      ELSE addObject(counted, target, parsed.object, parsed.next)

\* The end of _parsePolyline (after the loop) with the cursor at `next`.
polylineReturn(s, next) ==
  LET base == collectEntityData(s.pairs, s.plBase).data
      flag == getInteger(base, 70, 0, 0)
      closed == flag % 2 = 1
      line == applyLayerToObject(createLine(s.plVerts, closed, resolveColor(base, s.layers)), base)
      object == IF s.plVerts = <<>> THEN NoObject ELSE line
  IN  addObject([s EXCEPT !.p = 0, !.plBase = 0, !.plVerts = <<>>, !.plCaller = ""],
                s.plCaller, object, next)

\* One iteration of the loop of _parsePolyline, or its exit.
parsePolyline(s) ==
  IF s.p > Len(s.pairs) THEN polylineReturn(s, s.p)
  ELSE LET pair == s.pairs[s.p]
           type == TrimUpper(pair.value)
           c == collectEntityData(s.pairs, s.p + 1)
           elevation == getNumber(collectEntityData(s.pairs, s.plBase).data, 30, 0, 0)
           x == getNumber(c.data, 10, 0, NaN)
           y == getNumber(c.data, 20, 0, NaN)
           z == getNumber(c.data, 30, 0, elevation)
       IN  IF pair.code # 0 THEN [s EXCEPT !.p = s.p + 1]
           ELSE IF type = "VERTEX"
           THEN [s EXCEPT !.p = c.next,
                          !.plVerts = IF IsFinite(x) /\ IsFinite(y) /\ IsFinite(z)
                                      THEN Append(@, <<x, y, z>>) ELSE @]
           ELSE IF type = "SEQEND" THEN polylineReturn(s, c.next)
           ELSE polylineReturn(s, s.p)

\* One iteration of the loop of _parseEntities, or its exit.
parseEntities(s) ==
  IF s.j > Len(s.pairs) THEN [s EXCEPT !.pc = "sections", !.i = s.j, !.j = 0]
  ELSE LET pair == s.pairs[s.j]
       IN  IF pair.code # 0 THEN [s EXCEPT !.j = s.j + 1]
           ELSE IF TrimUpper(pair.value) = "ENDSEC"
           THEN [s EXCEPT !.pc = "sections", !.i = s.j + 1, !.j = 0]
           ELSE parseEntity(s, s.j, "entities")

\* The return of _parseBlockEntities into _parseBlocks, which stores the block.
blockReturn(s, next) ==
  [s EXCEPT !.pc = "blocks", !.j = next, !.k = 0,
            !.blocks = (s.blockName :> s.blockGroup) @@ @,
            !.blockName = "", !.blockGroup = <<>>]

\* One iteration of the loop of _parseBlockEntities, or its exit.
parseBlockEntities(s) ==
  IF s.k > Len(s.pairs) THEN blockReturn(s, s.k)
  ELSE LET pair == s.pairs[s.k]
       IN  IF pair.code = 0
           THEN IF TrimUpper(pair.value) = "ENDBLK" THEN blockReturn(s, s.k + 1)
                ELSE parseEntity(s, s.k, "blockentities")
           ELSE [s EXCEPT !.k = s.k + 1]

\* One iteration of the loop of _parseBlocks, or its exit.
parseBlocks(s) ==
  IF s.j > Len(s.pairs) THEN [s EXCEPT !.pc = "sections", !.i = s.j, !.j = 0]
  ELSE LET pair == s.pairs[s.j]
           value == TrimUpper(pair.value)
           c == collectEntityData(s.pairs, s.j + 1)
           blockName == getString(c.data, 2, 0, NullStr)
       IN  IF pair.code = 0 /\ value = "ENDSEC"
           THEN [s EXCEPT !.pc = "sections", !.i = s.j + 1, !.j = 0]
           ELSE IF pair.code = 0 /\ value = "BLOCK" /\ Truthy(blockName)
           THEN [s EXCEPT !.pc = "blockentities", !.k = c.next,
                          !.blockName = blockName, !.blockGroup = <<>>]
           ELSE [s EXCEPT !.j = s.j + 1]

\* One iteration of the loop of _parseLayerTable, or its exit.
parseLayerTable(s) ==
  IF s.k > Len(s.pairs) THEN [s EXCEPT !.pc = "tables", !.j = s.k, !.k = 0]
  ELSE LET pair == s.pairs[s.k]
           value == TrimUpper(pair.value)
           c == collectEntityData(s.pairs, s.k + 1)
           name == getString(c.data, 2, 0, NullStr)
           trueColor == getInteger(c.data, 420, 0, NullInt)
           aci == getInteger(c.data, 62, 0, NullInt)
           mapped == IF aci # NullInt THEN aciToHex(aci) ELSE NullInt
           color == IF trueColor # NullInt THEN trueColor ELSE mapped
       IN  IF pair.code = 0 /\ value = "ENDTAB"
           THEN [s EXCEPT !.pc = "tables", !.j = s.k + 1, !.k = 0]
           ELSE IF pair.code = 0 /\ value = "LAYER"
           THEN [s EXCEPT !.k = c.next,
                          !.layers = IF Truthy(name)
                                     THEN (name :> (IF color # NullInt THEN color ELSE DEFAULT_COLOR)) @@ @
                                     ELSE @]
           ELSE [s EXCEPT !.k = s.k + 1]

\* One iteration of the loop of _parseTables, or its exit.
parseTables(s) ==
  IF s.j > Len(s.pairs) THEN [s EXCEPT !.pc = "sections", !.i = s.j, !.j = 0]
  ELSE LET pair == s.pairs[s.j]
           value == TrimUpper(pair.value)
           tableName == IF s.j + 1 <= Len(s.pairs) /\ s.pairs[s.j + 1].code = 2
                        THEN TrimUpper(s.pairs[s.j + 1].value) ELSE ""
       IN  IF pair.code = 0 /\ value = "ENDSEC"
           THEN [s EXCEPT !.pc = "sections", !.i = s.j + 1, !.j = 0]
           ELSE IF pair.code = 0 /\ value = "TABLE" /\ tableName = "LAYER"
           THEN [s EXCEPT !.pc = "layertable", !.k = s.j + 2]
           ELSE [s EXCEPT !.j = s.j + 1]

skipSection_PastNextPair(s) ==
  IF s.j > Len(s.pairs) THEN [s EXCEPT !.pc = "sections", !.i = s.j, !.j = 0]
  ELSE LET pair == s.pairs[s.j]
       IN  IF pair.code = 0 /\ TrimUpper(pair.value) = "ENDSEC"
           THEN [s EXCEPT !.pc = "sections", !.i = s.j + 2, !.j = 0]
           ELSE [s EXCEPT !.j = s.j + 1]

\* One iteration of the loop of _skipSection, or its exit.
skipSection(s) ==
  IF s.j > Len(s.pairs) THEN [s EXCEPT !.pc = "sections", !.i = s.j, !.j = 0]
  ELSE LET pair == s.pairs[s.j]
       IN  IF pair.code = 0 /\ TrimUpper(pair.value) = "ENDSEC"
           THEN [s EXCEPT !.pc = "sections", !.i = s.j + 1, !.j = 0]
           ELSE [s EXCEPT !.j = s.j + 1]

\* One iteration of the loop of _parseHeader, or its exit.
parseHeader(s) ==
  IF s.j > Len(s.pairs) THEN [s EXCEPT !.pc = "sections", !.i = s.j, !.j = 0, !.currentVar = ""]
  ELSE LET pair == s.pairs[s.j]
       IN  IF pair.code = 0 /\ TrimUpper(pair.value) = "ENDSEC"
           THEN [s EXCEPT !.pc = "sections", !.i = s.j + 1, !.j = 0, !.currentVar = ""]
           ELSE IF pair.code = 9
           THEN [s EXCEPT !.j = s.j + 1, !.currentVar = Trim(pair.value)]
           ELSE IF s.currentVar # "" /\ pair.code = 70
           THEN [s EXCEPT !.j = s.j + 1, !.header = (s.currentVar :> ParseInt(pair.value)) @@ @]
           ELSE IF s.currentVar # "" /\ pair.code = 40
           THEN [s EXCEPT !.j = s.j + 1, !.header = (s.currentVar :> ParseFloat(pair.value)) @@ @]
           ELSE [s EXCEPT !.j = s.j + 1]

\* parse, after _parseSections has returned.
parseReturn(s) ==
  LET insunits == IF "$INSUNITS" \in DOMAIN s.header THEN s.header["$INSUNITS"] ELSE NaN
  IN  IF s.group = <<>> THEN [s EXCEPT !.pc = "failed", !.err = ERR_NO_ENTITIES]
      ELSE [s EXCEPT !.pc = "done",
                     !.layerCount = Cardinality(DOMAIN s.layers),
                     !.units = IF insunits = NaN \/ insunits = 0 THEN UnknownUnits ELSE insunits]

\* One iteration of the loop of _parseSections; at its exit parse goes on.
parseSections(s) ==
  IF s.i > Len(s.pairs) THEN parseReturn(s)
  ELSE LET pair == s.pairs[s.i]
           sectionName == IF s.i + 1 <= Len(s.pairs) /\ s.pairs[s.i + 1].code = 2
                          THEN TrimUpper(s.pairs[s.i + 1].value) ELSE ""
       IN  IF pair.code = 0 /\ TrimUpper(pair.value) = "SECTION"
           THEN [s EXCEPT !.j = s.i + 2,
                          !.pc = CASE sectionName = "HEADER" -> "header"
                                   [] sectionName = "TABLES" -> "tables"
                                   [] sectionName = "BLOCKS" -> "blocks"
                                   [] sectionName = "ENTITIES" -> "entities"
                                   [] OTHER -> "skip"]
           ELSE [s EXCEPT !.i = s.i + 1]

\* The entry of parse: the two input checks, then the fresh group and state.
parse(s) ==
  IF ~s.isString THEN [s EXCEPT !.pc = "failed", !.err = ERR_NOT_STRING]
  ELSE IF Len(s.pairs) = 0 THEN [s EXCEPT !.pc = "failed", !.err = ERR_NO_DATA]
  ELSE [s EXCEPT !.pc = "sections", !.i = 1]

ParseCall(isString, pairs) ==
  [pc |-> "start", isString |-> isString, pairs |-> pairs,
   i |-> 0, j |-> 0, k |-> 0, p |-> 0, plBase |-> 0, plVerts |-> <<>>, plCaller |-> "",
   currentVar |-> "", blockName |-> "", blockGroup |-> <<>>,
   group |-> <<>>, layers |-> <<>>, blocks |-> <<>>, header |-> <<>>, counts |-> <<>>,
   err |-> "", layerCount |-> 0, units |-> NullInt]

Step(s) ==
  CASE s.pc = "start" -> parse(s)
    [] s.pc = "sections" -> parseSections(s)
    [] s.pc = "header" -> parseHeader(s)
    [] s.pc = "skip" -> skipSection(s)
    [] s.pc = "tables" -> parseTables(s)
    [] s.pc = "layertable" -> parseLayerTable(s)
    [] s.pc = "blocks" -> parseBlocks(s)
    [] s.pc = "blockentities" -> parseBlockEntities(s)
    [] s.pc = "entities" -> parseEntities(s)
    [] s.pc = "polyline" -> parsePolyline(s)
    [] OTHER -> s

RECURSIVE Run(_)
Run(s) == IF s.pc \in {"done", "failed"} THEN s ELSE Run(Step(s))

(***************************************************************************)
(* Spec: one call of parse on a drawing made of an optional leading        *)
(* section, an ENTITIES section holding up to MaxEntities entities and an  *)
(* optional end (ENDSEC, EOF); or on a non-string; or on a text without    *)
(* pairs.                                                                  *)
(***************************************************************************)
SECTION == Pair(0, "SECTION")

ENDSEC == Pair(0, "ENDSEC")

HeaderSection ==
  <<SECTION, Pair(2, "HEADER"), Pair(9, "$INSUNITS"), Pair(70, "4"), ENDSEC>>

TablesSection ==
  <<SECTION, Pair(2, "TABLES"), Pair(0, "TABLE"), Pair(2, "LAYER"), Pair(0, "LAYER"),
    Pair(2, "L1"), Pair(62, "1"), Pair(0, "ENDTAB"), ENDSEC>>

BlocksSection ==
  <<SECTION, Pair(2, "BLOCKS"), Pair(0, "BLOCK"), Pair(2, "B1"), Pair(0, "LINE"),
    Pair(10, "1"), Pair(11, "1.0"), Pair(0, "LINE"), Pair(10, "0"), Pair(11, "1"),
    Pair(0, "ENDBLK"), ENDSEC>>

EmptyBlockSection ==
  <<SECTION, Pair(2, "BLOCKS"), Pair(0, "BLOCK"), Pair(2, "B1"), Pair(0, "ENDBLK"), ENDSEC>>

ObjectsSection ==
  <<Pair(0, "section"), Pair(2, "OBJECTS"), Pair(0, "LINE"), Pair(10, "0"), Pair(11, "1"),
    Pair(0, "endsec")>>

NamelessSection == <<SECTION, ENDSEC>>

LeadingSections ==
  {<<>>, HeaderSection \o ObjectsSection, TablesSection, BlocksSection, EmptyBlockSection,
   NamelessSection}

GoodLine == <<Pair(0, "LINE"), Pair(8, "L1"), Pair(10, "0"), Pair(11, "1")>>

DegenerateLine == <<Pair(0, "LINE"), Pair(62, "1"), Pair(10, "1"), Pair(11, "1.0"), Pair(20, "x")>>

GoodCircle == <<Pair(0, "circle "), Pair(40, "2mm")>>

ZeroCircle == <<Pair(0, "CIRCLE"), Pair(8, "L1"), Pair(40, "0")>>

NegativeCircle == <<Pair(0, "CIRCLE"), Pair(10, "1"), Pair(40, "-1")>>

ClosedPolyline ==
  <<Pair(0, "POLYLINE"), Pair(70, "1"), Pair(0, "VERTEX"), Pair(10, "0"), Pair(20, "0"),
    Pair(0, "VERTEX"), Pair(10, "1"), Pair(20, "0"), Pair(0, "VERTEX"), Pair(10, "1"),
    Pair(0, "SEQEND")>>

UnendedPolyline == <<Pair(0, "POLYLINE"), Pair(0, "VERTEX"), Pair(10, "1"), Pair(20, "1")>>

UnknownEntity == <<Pair(0, "DICTIONARY"), Pair(5, "A")>>

InsertB1 == <<Pair(0, "INSERT"), Pair(2, " B1 "), Pair(10, "2")>>

EntityMenu ==
  {GoodLine, DegenerateLine, GoodCircle, ZeroCircle, NegativeCircle, ClosedPolyline,
   UnendedPolyline, UnknownEntity, InsertB1}

MaxEntities == 2

Endings == {<<>>, <<ENDSEC, Pair(0, "EOF")>>}

Drawings ==
  {lead \o <<SECTION, Pair(2, "ENTITIES")>> \o Flatten(ents) \o ending :
     lead \in LeadingSections, ents \in SeqsUpTo(EntityMenu, MaxEntities), ending \in Endings}

ParseInit ==
  \/ \E pairs \in Drawings \cup {<<>>} : m = ParseCall(TRUE, pairs)
  \/ m = ParseCall(FALSE, <<>>)

Init ==
  /\ ParseInit
  /\ scan = Idle /\ col = Idle /\ mesh = Idle /\ walk = Idle /\ rep = Idle /\ files = Idle

ParseEnter ==
  /\ m.pc = "start"
  /\ m' = parse(m)
  /\ UNCHANGED <<scan, col, mesh, walk, rep, files>>

StepSections ==
  /\ m.pc = "sections"
  /\ m' = parseSections(m)
  /\ UNCHANGED <<scan, col, mesh, walk, rep, files>>

StepHeader ==
  /\ m.pc = "header"
  /\ m' = parseHeader(m)
  /\ UNCHANGED <<scan, col, mesh, walk, rep, files>>

StepSkip ==
  /\ m.pc = "skip"
  /\ m' = skipSection(m)
  /\ UNCHANGED <<scan, col, mesh, walk, rep, files>>

StepTables ==
  /\ m.pc = "tables"
  /\ m' = parseTables(m)
  /\ UNCHANGED <<scan, col, mesh, walk, rep, files>>

StepLayerTable ==
  /\ m.pc = "layertable"
  /\ m' = parseLayerTable(m)
  /\ UNCHANGED <<scan, col, mesh, walk, rep, files>>

StepBlocks ==
  /\ m.pc = "blocks"
  /\ m' = parseBlocks(m)
  /\ UNCHANGED <<scan, col, mesh, walk, rep, files>>

StepBlockEntities ==
  /\ m.pc = "blockentities"
  /\ m' = parseBlockEntities(m)
  /\ UNCHANGED <<scan, col, mesh, walk, rep, files>>

StepEntities ==
  /\ m.pc = "entities"
  /\ m' = parseEntities(m)
  /\ UNCHANGED <<scan, col, mesh, walk, rep, files>>

StepPolyline ==
  /\ m.pc = "polyline"
  /\ m' = parsePolyline(m)
  /\ UNCHANGED <<scan, col, mesh, walk, rep, files>>

Next ==
  \/ ParseEnter
  \/ StepSections
  \/ StepHeader
  \/ StepSkip
  \/ StepTables
  \/ StepLayerTable
  \/ StepBlocks
  \/ StepBlockEntities
  \/ StepEntities
  \/ StepPolyline

Spec == Init /\ [][Next]_vars

\* The walkers run to completion: JavaScript runs parse without preemption.
FairSpec == Init /\ [][Next]_vars /\ WF_vars(Next)

Finished(s) == s.pc \in {"done", "failed"}

IsEndsec(pr) == pr.code = 0 /\ TrimUpper(pr.value) = "ENDSEC"

RemovePairs(pairs, from, to) == SubSeq(pairs, 1, from - 1) \o SubSeq(pairs, to + 1, Len(pairs))

\* What a finished parse hands back: the scene or the error.
Outcome(s) == [pc |-> s.pc, err |-> s.err, group |-> s.group]

(***************************************************************************)
(* C2.  When the top-level loop has skipped a section whose name pair      *)
(* (code 2) is none of HEADER, TABLES, BLOCKS, ENTITIES and which has an   *)
(* ENDSEC of its own, the skip returns the cursor just past that ENDSEC,   *)
(* changes nothing of the scene, layers or blocks, and the parse ends with *)
(* the outcome of parsing the drawing without that section.                *)
(***************************************************************************)
RecognizedSections == {"HEADER", "TABLES", "BLOCKS", "ENTITIES"}

UnrecognizedSectionAt(pairs, x) ==
  /\ x + 1 <= Len(pairs)
  /\ pairs[x].code = 0 /\ TrimUpper(pairs[x].value) = "SECTION"
  /\ pairs[x + 1].code = 2
  /\ TrimUpper(pairs[x + 1].value) \notin RecognizedSections

HasOwnEndsec(pairs, x) == \E e \in x + 2 .. Len(pairs) : IsEndsec(pairs[e])

OwnEndsec(pairs, x) == MinOf({e \in x + 2 .. Len(pairs) : IsEndsec(pairs[e])})

C2_UnrecognizedSectionSkipped ==
  [][(/\ m.pc = "skip" /\ m'.pc = "sections"
      /\ UnrecognizedSectionAt(m.pairs, m.i) /\ HasOwnEndsec(m.pairs, m.i))
     => (/\ m'.i = OwnEndsec(m.pairs, m.i) + 1
         /\ m'.group = m.group /\ m'.layers = m.layers /\ m'.blocks = m.blocks
         /\ Outcome(Run(m')) =
              Outcome(Run(ParseCall(TRUE, RemovePairs(m.pairs, m.i, OwnEndsec(m.pairs, m.i))))))]_vars

\* A finished parse of a drawing with HEADER, then an OBJECTS section holding
\* a LINE, then two entities: the scene has the two entities only.
C2_Witness ==
  /\ m.pc = "done"
  /\ UnrecognizedSectionAt(m.pairs, 6) /\ HasOwnEndsec(m.pairs, 6)
  /\ m.pairs[8].value = "LINE"
  /\ Len(m.group) = 2 /\ m.group[1].kind = "Line" /\ m.group[2].kind = "LineLoop"
  /\ m.counts["LINE"] = 1

(***************************************************************************)
(* C4.  parse fails with the "no supported entities" error exactly when    *)
(* the drawing (a string with at least one pair) yields zero primitives;   *)
(* the two input errors carry other messages and are raised before any     *)
(* section is parsed; a scene that parse returns holds at least one        *)
(* primitive.  A primitive is an object that is not a Group; the           *)
(* primitives of a Group are those of its children.                        *)
(***************************************************************************)
RECURSIVE CountPrimitives(_)
CountPrimitives(objects) ==
  IF objects = <<>> THEN 0
  ELSE (IF Head(objects).kind = "Group" THEN CountPrimitives(Head(objects).children) ELSE 1)
       + CountPrimitives(Tail(objects))

C4_ErrorTaxonomy ==
  /\ Cardinality({ERR_NOT_STRING, ERR_NO_DATA, ERR_NO_ENTITIES}) = 3
  /\ Finished(m) /\ ~m.isString => m.pc = "failed" /\ m.err = ERR_NOT_STRING /\ m.i = 0
  /\ Finished(m) /\ m.isString /\ m.pairs = <<>>
       => m.pc = "failed" /\ m.err = ERR_NO_DATA /\ m.i = 0
  /\ Finished(m) /\ m.isString /\ m.pairs # <<>>
       => ((m.pc = "failed" /\ m.err = ERR_NO_ENTITIES) <=> CountPrimitives(m.group) = 0)
  /\ m.pc = "done" => CountPrimitives(m.group) >= 1

(***************************************************************************)
(* C5.  When the ENTITIES walker or the block walker is at a LINE whose    *)
(* start and end read as the same point, or at a CIRCLE whose radius reads *)
(* as zero or less, its step adds nothing to the scene or the block,       *)
(* raises no error, leaves the cursor at the next code-0 pair (or the end  *)
(* of the pairs), and the parse ends with the outcome of parsing the       *)
(* drawing without that entity.                                            *)
(***************************************************************************)
DegenerateAt(pairs, c) ==
  /\ c <= Len(pairs) /\ pairs[c].code = 0
  /\ LET type == TrimUpper(pairs[c].value)
         data == collectEntityData(pairs, c + 1).data
     IN  \/ /\ type = "LINE"
            /\ \A axis \in {10, 20, 30} : getNumber(data, axis, 0, 0) = getNumber(data, axis + 1, 0, 0)
         \/ /\ type = "CIRCLE"
            /\ getNumber(data, 40, 0, 0) <= 0

WithoutEntityAt(pairs, c) == RemovePairs(pairs, c, NextMarker(pairs, c + 1) - 1)

C5_DegenerateEntityDropped ==
  [][/\ (m.pc = "entities" /\ DegenerateAt(m.pairs, m.j))
          => /\ m'.pc = "entities" /\ m'.err = ""
             /\ m'.group = m.group
             /\ m'.j = NextMarker(m.pairs, m.j + 1)
             /\ Outcome(Run(m')) = Outcome(Run(ParseCall(TRUE, WithoutEntityAt(m.pairs, m.j))))
     /\ (m.pc = "blockentities" /\ DegenerateAt(m.pairs, m.k))
          => /\ m'.pc = "blockentities" /\ m'.err = ""
             /\ m'.group = m.group /\ m'.blockGroup = m.blockGroup
             /\ m'.k = NextMarker(m.pairs, m.k + 1)
             /\ Outcome(Run(m')) = Outcome(Run(ParseCall(TRUE, WithoutEntityAt(m.pairs, m.k))))]_vars

\* A finished parse of a drawing whose ENTITIES section holds a degenerate
\* LINE followed by a good LINE: both were counted, the scene has the good one.
C5_Witness ==
  /\ m.pc = "done"
  /\ \E c \in DOMAIN m.pairs :
       /\ DegenerateAt(m.pairs, c) /\ TrimUpper(m.pairs[c].value) = "LINE"
       /\ NextMarker(m.pairs, c + 1) <= Len(m.pairs)
       /\ m.pairs[NextMarker(m.pairs, c + 1)].value = "LINE"
       /\ ~DegenerateAt(m.pairs, NextMarker(m.pairs, c + 1))
  /\ m.pairs[2].value = "ENTITIES"
  /\ m.counts["LINE"] = 2
  /\ Len(m.group) = 1 /\ m.group[1].verts = <<<<0, 0, 0>>, <<1, 0, 0>>>>

(***************************************************************************)
(* C7.  Every step of a walker either ends the parse, or moves the cursor  *)
(* of the running loop forward, or calls a walker that starts beyond the   *)
(* caller's cursor, or returns at or beyond the returning walker's cursor  *)
(* and moves the caller's cursor forward; and every parse ends.            *)
(***************************************************************************)
Depth(pc) ==
  CASE pc = "sections" -> 1
    [] pc \in {"header", "skip", "tables", "blocks", "entities"} -> 2
    [] pc \in {"layertable", "blockentities"} -> 3
    [] pc = "polyline" -> 4
    [] OTHER -> 0

CursorOf(s, pc) ==
  CASE Depth(pc) = 1 -> s.i
    [] Depth(pc) = 2 -> s.j
    [] Depth(pc) = 3 -> s.k
    [] Depth(pc) = 4 -> s.p
    [] OTHER -> 0

ProgressStep ==
  \/ m.pc = "start"
  \/ Finished(m')
  \/ m'.pc = m.pc /\ CursorOf(m', m.pc) > CursorOf(m, m.pc)
  \/ Depth(m'.pc) > Depth(m.pc) /\ CursorOf(m', m'.pc) > CursorOf(m, m.pc)
  \/ /\ Depth(m'.pc) < Depth(m.pc)
     /\ CursorOf(m', m'.pc) >= CursorOf(m, m.pc)
     /\ CursorOf(m', m'.pc) > CursorOf(m, m'.pc)

C7_ParseTerminates == [][ProgressStep]_vars /\ <>Finished(m)

\* A finished parse of a drawing that ends inside its ENTITIES section and
\* holds an entity of unknown type and a POLYLINE without SEQEND.
C7_Witness ==
  /\ m.pc = "done"
  /\ m.pairs = <<SECTION, Pair(2, "ENTITIES")>> \o UnknownEntity \o UnendedPolyline
  /\ m.i = Len(m.pairs) + 1
  /\ Len(m.group) = 1 /\ m.group[1].verts = <<<<1, 1, 0>>>>

(***************************************************************************)
(* SpecMerge: mergeAnalyses over the analyses of two meshes.  Lengths are  *)
(* whole millimetres.  A loop summary carries id, the identity of the      *)
(* JavaScript object (dedupeClosedLoops keeps and updates the first object *)
(* of a key, the lists of the report share the objects).  Circularity is   *)
(* in thousandths.                                                         *)
(***************************************************************************)
NullVec == <<>>

createEmptyBendStats ==
  [totalEdges |-> 0, candidateEdges |-> 0, bendCount |-> 0, sum |-> 0,
   min |-> NullInt, max |-> NullInt, histogram |-> <<>>]

NotFlat ==
  [isLikelyFlat |-> FALSE, dominantPlane |-> NullInt, largestPatchRatio |-> NullInt,
   aspectRatio |-> NullInt]

createEmptyAnalysis ==
  [loops |-> <<>>, holes |-> <<>>, openLoops |-> <<>>, outerPerimeterMm |-> NullInt,
   totalCutLengthMm |-> 0, bend |-> createEmptyBendStats, flatPattern |-> NotFlat]

\* Math.round(value / 1e-3) on a whole number.
quantize(value) == value * 1000

loopKey(summary) ==
  <<quantize(summary.centroid[1]), quantize(summary.centroid[2]), quantize(summary.centroid[3]),
    quantize(summary.lengthMm), summary.vertexCount, quantize(summary.approxDiameterMm)>>

\* The update of the first summary of a key by a later one of the same key.
mergeInto(existing, summary) ==
  [existing EXCEPT
     !.centroid = [a \in 1 .. 3 |-> (existing.centroid[a] + summary.centroid[a]) \div 2],
     !.lengthMm = (existing.lengthMm + summary.lengthMm) \div 2,
     !.approxDiameterMm = (existing.approxDiameterMm + summary.approxDiameterMm) \div 2,
     !.vertexCount = IF existing.vertexCount >= summary.vertexCount
                     THEN existing.vertexCount ELSE summary.vertexCount,
     !.circularity = (existing.circularity + summary.circularity) \div 2]

\* The loop of dedupeClosedLoops: unique so far, then the rest.  The first
\* summary of a key is the one the `seen` map holds.
RECURSIVE dedupeFrom(_, _)
dedupeFrom(unique, rest) ==
  IF rest = <<>> THEN unique
  ELSE LET summary == Head(rest)
           same == {x \in DOMAIN unique :
                      /\ unique[x].closed /\ unique[x].centroid # NullVec
                      /\ unique[x].key = loopKey(summary)}
       IN  IF ~summary.closed \/ summary.centroid = NullVec
           THEN dedupeFrom(Append(unique, [summary EXCEPT !.key = <<>>]), Tail(rest))
           ELSE IF same = {}
           THEN dedupeFrom(Append(unique, [summary EXCEPT !.key = loopKey(summary)]), Tail(rest))
           ELSE dedupeFrom([unique EXCEPT ![MinOf(same)] = mergeInto(@, summary)], Tail(rest))

dedupeClosedLoops(loopSummaries) ==
  LET unique == dedupeFrom(<<>>, loopSummaries)
  IN  [x \in DOMAIN unique |-> [unique[x] EXCEPT !.key = <<>>]]

\* Array.prototype.sort((a, b) => b.lengthMm - a.lengthMm): stable.
RECURSIVE insertByLength(_, _)
insertByLength(sorted, loop) ==
  IF sorted = <<>> THEN <<loop>>
  ELSE IF Head(sorted).lengthMm >= loop.lengthMm
       THEN <<Head(sorted)>> \o insertByLength(Tail(sorted), loop)
       ELSE <<loop>> \o sorted

RECURSIVE sortByLengthFrom(_, _)
sortByLengthFrom(sorted, rest) ==
  IF rest = <<>> THEN sorted
  ELSE sortByLengthFrom(insertByLength(sorted, Head(rest)), Tail(rest))

sortByLengthDescending_KeepOrder(loops) == loops

sortByLengthDescending(loops) == sortByLengthFrom(<<>>, loops)

RECURSIVE sumLengths(_)
sumLengths(loops) == IF loops = <<>> THEN 0 ELSE Head(loops).lengthMm + sumLengths(Tail(loops))

mergeHistogram(into, from) ==
  [key \in DOMAIN into \cup DOMAIN from |->
     (IF key \in DOMAIN into THEN into[key] ELSE 0) + (IF key \in DOMAIN from THEN from[key] ELSE 0)]

\* One iteration of `for (const analysis of meshAnalyses)`.
mergeOne(combined, analysis) ==
  [combined EXCEPT
     !.loops = @ \o analysis.loops,
     !.bend = [totalEdges |-> @.totalEdges + analysis.bend.totalEdges,
               candidateEdges |-> @.candidateEdges + analysis.bend.candidateEdges,
               bendCount |-> @.bendCount + analysis.bend.bendCount,
               sum |-> @.sum + analysis.bend.sum,
               min |-> IF analysis.bend.min = NullInt THEN @.min
                       ELSE IF @.min = NullInt THEN analysis.bend.min
                       ELSE IF @.min <= analysis.bend.min THEN @.min ELSE analysis.bend.min,
               max |-> IF analysis.bend.max = NullInt THEN @.max
                       ELSE IF @.max = NullInt THEN analysis.bend.max
                       ELSE IF @.max >= analysis.bend.max THEN @.max ELSE analysis.bend.max,
               histogram |-> mergeHistogram(@.histogram, analysis.bend.histogram)],
     !.flatPattern = IF analysis.flatPattern.isLikelyFlat THEN analysis.flatPattern ELSE @]

\* mergeAnalyses after the loop over the analyses.
classifyLoops(combined) ==
  LET loops == dedupeClosedLoops(combined.loops)
      closedLoops == sortByLengthDescending(SelectSeq(loops, LAMBDA loop : loop.closed))
      openLoops == SelectSeq(loops, LAMBDA loop : ~loop.closed)
  IN  [combined EXCEPT
         !.loops = loops,
         !.totalCutLengthMm = sumLengths(loops),
         !.outerPerimeterMm = IF Len(closedLoops) > 0 THEN closedLoops[1].lengthMm ELSE NullInt,
         !.holes = IF Len(closedLoops) > 1 THEN Tail(closedLoops) ELSE <<>>,
         !.openLoops = openLoops]

LoopSummary(closed, lengthMm, cx, vertexCount, diameter, circularity) ==
  [id |-> 0, key |-> <<>>, closed |-> closed, lengthMm |-> lengthMm,
   centroid |-> IF closed THEN <<cx, 0, 0>> ELSE NullVec,
   approxDiameterMm |-> diameter, vertexCount |-> vertexCount, circularity |-> circularity]

LoopMenu ==
  {LoopSummary(TRUE, 100, 0, 4, 35, 800), LoopSummary(TRUE, 40, 10, 4, 14, 800),
   LoopSummary(TRUE, 40, -10, 4, 14, 0), LoopSummary(TRUE, 15, 0, 8, 5, 1000),
   LoopSummary(FALSE, 100, 0, 3, 60, 0), LoopSummary(FALSE, 30, 0, 2, 30, 0)}

MaxLoops == 3

OneBend ==
  [totalEdges |-> 5, candidateEdges |-> 1, bendCount |-> 1, sum |-> 90,
   min |-> 90, max |-> 90, histogram |-> (90 :> 1)]

TwoBends ==
  [totalEdges |-> 9, candidateEdges |-> 3, bendCount |-> 2, sum |-> 135,
   min |-> 45, max |-> 90, histogram |-> (45 :> 1) @@ (90 :> 1)]

LikelyFlat ==
  [isLikelyFlat |-> TRUE, dominantPlane |-> 0, largestPatchRatio |-> 1, aspectRatio |-> 2]

MeshVariants ==
  {<<createEmptyBendStats, LikelyFlat>>, <<OneBend, NotFlat>>, <<TwoBends, NotFlat>>}

\* Two analyses: the first holds the first `cut` loops, the second the rest.
MergeInit ==
  \E loops \in SeqsUpTo(LoopMenu, MaxLoops) :
  \E cut \in 0 .. Len(loops) :
  \E v1 \in MeshVariants, v2 \in {<<createEmptyBendStats, NotFlat>>, <<OneBend, NotFlat>>} :
    LET tagged == [x \in DOMAIN loops |-> [loops[x] EXCEPT !.id = x]]
        analysis(ls, v) == [createEmptyAnalysis EXCEPT !.loops = ls, !.bend = v[1], !.flatPattern = v[2]]
    IN  rep = [pc |-> "loop", n |-> 1,
               meshAnalyses |-> <<analysis(SubSeq(tagged, 1, cut), v1),
                                  analysis(SubSeq(tagged, cut + 1, Len(tagged)), v2)>>,
               combined |-> createEmptyAnalysis]

MergeAnalysis ==
  /\ rep.pc = "loop" /\ rep.n <= Len(rep.meshAnalyses)
  /\ rep' = [rep EXCEPT !.n = rep.n + 1,
                        !.combined = mergeOne(rep.combined, rep.meshAnalyses[rep.n])]
  /\ UNCHANGED <<m, scan, col, mesh, walk, files>>

MergeClassify ==
  /\ rep.pc = "loop" /\ rep.n > Len(rep.meshAnalyses)
  /\ rep' = [rep EXCEPT !.pc = "done", !.combined = classifyLoops(rep.combined)]
  /\ UNCHANGED <<m, scan, col, mesh, walk, files>>

InitMerge ==
  /\ MergeInit
  /\ m = Idle /\ scan = Idle /\ col = Idle /\ mesh = Idle /\ walk = Idle /\ files = Idle

NextMerge == MergeAnalysis \/ MergeClassify

SpecMerge == InitMerge /\ [][NextMerge]_vars

(***************************************************************************)
(* C3.  In the merged report every loop of the report's loop list is in    *)
(* exactly one group: the outer perimeter is the greatest length of a      *)
(* closed loop (null without closed loops), the holes are the closed loops *)
(* but for one of that greatest length, in non-increasing order of length, *)
(* and the open chains are the loops that are not closed, in list order.   *)
(* Closed loops of lengths 100, 40, 15 give outer 100 and holes 40, 15.    *)
(* Every loop of the analyses is in the list, itself or merged into the    *)
(* first loop of the same geometry.                                        *)
(***************************************************************************)
Ids(loops) == {loops[x].id : x \in DOMAIN loops}

InputLoops == rep.meshAnalyses[1].loops \o rep.meshAnalyses[2].loops

C3_LoopClassification ==
  rep.pc = "done" =>
    LET c == rep.combined
        closed == SelectSeq(c.loops, LAMBDA loop : loop.closed)
        lengths(ls) == [x \in DOMAIN ls |-> ls[x].lengthMm]
    IN  /\ Cardinality(Ids(c.loops)) = Len(c.loops)
        /\ \A x \in DOMAIN InputLoops :
             \E y \in DOMAIN c.loops :
               /\ c.loops[y].closed = InputLoops[x].closed
               /\ c.loops[y].lengthMm = InputLoops[x].lengthMm
               /\ c.loops[y].id = InputLoops[x].id
                    \/ (c.loops[y].closed /\ c.loops[y].centroid = InputLoops[x].centroid)
        /\ closed = <<>> => c.outerPerimeterMm = NullInt /\ c.holes = <<>>
        /\ closed # <<>> =>
             /\ c.outerPerimeterMm = MaxOf(Range(lengths(closed)))
             /\ \E o \in DOMAIN closed :
                  /\ closed[o].lengthMm = c.outerPerimeterMm
                  /\ Ids(c.holes) = Ids(closed) \ {closed[o].id}
             /\ Len(c.holes) = Len(closed) - 1
        /\ \A x \in DOMAIN c.holes : c.holes[x] \in Range(closed)
        /\ \A x \in 1 .. Len(c.holes) - 1 : c.holes[x].lengthMm >= c.holes[x + 1].lengthMm
        /\ \A x \in DOMAIN c.holes : c.holes[x].lengthMm <= c.outerPerimeterMm
        /\ c.openLoops = SelectSeq(c.loops, LAMBDA loop : ~loop.closed)
        /\ Ids(c.holes) \cap Ids(c.openLoops) = {}
        /\ Range(lengths(closed)) = {100, 40, 15} /\ Len(closed) = 3
             => c.outerPerimeterMm = 100 /\ lengths(c.holes) = <<40, 15>>

\* A finished merge of closed loops 40 (first mesh), 100 and 15 (second mesh).
C3_Witness ==
  /\ rep.pc = "done"
  /\ Len(rep.meshAnalyses[1].loops) = 1 /\ Len(rep.meshAnalyses[2].loops) = 2
  /\ Len(rep.combined.holes) = 2
  /\ [x \in 1 .. 3 |-> InputLoops[x].lengthMm] = <<40, 100, 15>>
  /\ \A x \in 1 .. 3 : InputLoops[x].closed
  /\ rep.combined.outerPerimeterMm = 100
  /\ [x \in 1 .. 2 |-> rep.combined.holes[x].lengthMm] = <<40, 15>>
  /\ rep.combined.openLoops = <<>>

(***************************************************************************)
(* SpecBends: analyzeGeometry on a non-indexed triangle geometry, from the *)
(* vertex deduplication over the faces and edges to summarizeBends.        *)
(* Coordinates are whole millimetres, so two positions share a vertex key  *)
(* exactly when they are equal.  A face normal is kept as the cross        *)
(* product; normalising it changes its length only, and the angle between  *)
(* two normals is read from their dot product and squared lengths.  Angles *)
(* are in thousandths of a degree.  Vertex, face and edge indices are      *)
(* 1-based.                                                                *)
(***************************************************************************)
BEND_ANGLE_TOLERANCE_DEG == 3

\* Math.round(v / VERTEX_MERGE_TOLERANCE) for each coordinate, joined.
vertexKey(point) == [a \in 1 .. 3 |-> point[a] * 100000]

\* The vertex loop of analyzeGeometry over the positions from `rest` on.
RECURSIVE dedupeVertices(_, _, _)
dedupeVertices(uniqueVertices, originalToUnique, rest) ==
  IF rest = <<>>
  THEN [uniqueVertices |-> uniqueVertices, originalToUnique |-> originalToUnique]
  ELSE LET key == vertexKey(Head(rest))
           hits == {x \in DOMAIN uniqueVertices : vertexKey(uniqueVertices[x]) = key}
       IN  IF hits = {}
           THEN dedupeVertices(Append(uniqueVertices, Head(rest)),
                               Append(originalToUnique, Len(uniqueVertices) + 1), Tail(rest))
           ELSE dedupeVertices(uniqueVertices, Append(originalToUnique, MinOf(hits)), Tail(rest))

Sub(u, v) == [a \in 1 .. 3 |-> u[a] - v[a]]

Cross(u, v) ==
  <<u[2] * v[3] - u[3] * v[2], u[3] * v[1] - u[1] * v[3], u[1] * v[2] - u[2] * v[1]>>

Dot(u, v) == u[1] * v[1] + u[2] * v[2] + u[3] * v[3]

getEdgeKey(a, b) == IF a < b THEN <<a, b>> ELSE <<b, a>>

\* edges: the Map in insertion order.  lengthSq is the square of `length`.
addEdge(s, a, b, faceIdx) ==
  LET key == getEdgeKey(a, b)
      hits == {x \in DOMAIN s.edges : s.edges[x].key = key}
      d == Sub(s.uniqueVertices[a], s.uniqueVertices[b])
  IN  IF hits = {}
      THEN [s EXCEPT !.edges = Append(@, [key |-> key, a |-> a, b |-> b,
                                          lengthSq |-> Dot(d, d), faces |-> <<faceIdx>>])]
      ELSE [s EXCEPT !.edges[MinOf(hits)].faces = Append(@, faceIdx)]

\* faceCentroids holds three times the centroid.
addFace(s, aIdx, bIdx, cIdx, faceIdx) ==
  LET a == s.uniqueVertices[aIdx]
      b == s.uniqueVertices[bIdx]
      c == s.uniqueVertices[cIdx]
      normal == Cross(Sub(b, a), Sub(c, a))
      withFace == [s EXCEPT !.faceNormals = Append(@, normal),
                            !.faceCentroids = Append(@, [x \in 1 .. 3 |-> a[x] + b[x] + c[x]])]
  IN  addEdge(addEdge(addEdge(withFace, aIdx, bIdx, faceIdx), bIdx, cIdx, faceIdx),
              cIdx, aIdx, faceIdx)

\* acos of the clamped dot product of the two (normalised or zero) normals,
\* on the cosines that occur between the normals of the model's faces.
angleDeg(normalA, normalB) ==
  LET dot == Dot(normalA, normalB)
      qq == Dot(normalA, normalA) * Dot(normalB, normalB)
  IN  CASE qq = 0 \/ dot = 0 -> 90000
        [] dot * dot = qq /\ dot > 0 -> 0
        [] dot * dot = qq /\ dot < 0 -> 180000
        [] 3601 * dot * dot = 3600 * qq /\ dot > 0 -> 955
        [] 3601 * dot * dot = 3600 * qq /\ dot < 0 -> 179045
        [] 3601 * dot * dot = qq /\ dot > 0 -> 89045
        [] 3601 * dot * dot = qq /\ dot < 0 -> 90955
        [] OTHER -> NaN

\* The callback of edges.forEach in summarizeBends, for one edge.
bendsOfEdge(stats, edge, faceNormals) ==
  LET angle == angleDeg(faceNormals[edge.faces[1]], faceNormals[edge.faces[2]])
      rounded == RoundDiv(angle, BEND_ANGLE_TOLERANCE_DEG * 1000) * BEND_ANGLE_TOLERANCE_DEG
      previous == IF rounded \in DOMAIN stats.histogram THEN stats.histogram[rounded] ELSE 0
      candidate == [stats EXCEPT !.candidateEdges = @ + 1]
  IN  IF Len(edge.faces) # 2 THEN stats
      ELSE IF ~IsFinite(angle) THEN candidate
      ELSE IF angle > 1000
      THEN [candidate EXCEPT
              !.bendCount = @ + 1,
              !.sum = @ + angle,
              !.min = IF @ = NullInt \/ angle < @ THEN angle ELSE @,
              !.max = IF @ = NullInt \/ angle > @ THEN angle ELSE @,
              !.histogram = (rounded :> (previous + 1)) @@ @]
      ELSE candidate

PO == <<0, 0, 0>>

PY == <<0, 1, 0>>

PL == <<-1, 0, 0>>

PL2 == <<-1, 1, 0>>

PU == <<0, 0, 1>>

PU2 == <<0, 1, 1>>

PT == <<60, 0, 1>>

PD == <<0, 0, -1>>

PM == <<0, 2, 0>>

\* Triangles around the edge PO-PY: two of a flat quad, two of a quad at 90
\* degrees to it, one tilted by less than a degree, one below, one with a
\* repeated position, one with collinear positions.
FaceMenu ==
  <<<<PO, PL, PY>>, <<PY, PL, PL2>>, <<PO, PY, PU>>, <<PY, PU2, PU>>, <<PO, PY, PT>>,
    <<PO, PY, PD>>, <<PO, PO, PY>>, <<PO, PY, PM>>>>

MaxFaces == 4

RECURSIVE PickFaces(_, _)
PickFaces(picked, x) ==
  IF x > Len(FaceMenu) THEN <<>>
  ELSE (IF x \in picked THEN FaceMenu[x] ELSE <<>>) \o PickFaces(picked, x + 1)

Reverse(s) == [x \in DOMAIN s |-> s[Len(s) + 1 - x]]

\* positions: the position attribute, three positions per triangle.
BendsInit ==
  \E picked \in {S \in SUBSET DOMAIN FaceMenu : Cardinality(S) <= MaxFaces} :
  \E reversed \in BOOLEAN :
    mesh = [pc |-> "vertices",
            positions |-> IF reversed THEN Reverse(PickFaces(picked, 1)) ELSE PickFaces(picked, 1),
            uniqueVertices |-> <<>>, originalToUnique |-> <<>>,
            faceNormals |-> <<>>, faceCentroids |-> <<>>, edges |-> <<>>,
            faceIdx |-> 1, edgeIdx |-> 1, bend |-> createEmptyBendStats]

MeshVertices ==
  /\ mesh.pc = "vertices"
  /\ LET d == dedupeVertices(<<>>, <<>>, mesh.positions)
     IN  mesh' = [mesh EXCEPT !.pc = "faces", !.uniqueVertices = d.uniqueVertices,
                              !.originalToUnique = d.originalToUnique]
  /\ UNCHANGED <<m, scan, col, walk, rep, files>>

\* One iteration of the face loop (non-indexed geometry).
MeshFace ==
  /\ mesh.pc = "faces" /\ 3 * mesh.faceIdx <= Len(mesh.positions)
  /\ LET i == 3 * (mesh.faceIdx - 1)
         added == addFace(mesh, mesh.originalToUnique[i + 1], mesh.originalToUnique[i + 2],
                          mesh.originalToUnique[i + 3], mesh.faceIdx)
     IN  mesh' = [added EXCEPT !.faceIdx = mesh.faceIdx + 1]
  /\ UNCHANGED <<m, scan, col, walk, rep, files>>

\* The call of summarizeBends once the faces are in.
MeshFacesDone ==
  /\ mesh.pc = "faces" /\ 3 * mesh.faceIdx > Len(mesh.positions)
  /\ mesh' = [mesh EXCEPT !.pc = "bends", !.edgeIdx = 1, !.bend = createEmptyBendStats]
  /\ UNCHANGED <<m, scan, col, walk, rep, files>>

BendsEdge ==
  /\ mesh.pc = "bends" /\ mesh.edgeIdx <= Len(mesh.edges)
  /\ mesh' = [mesh EXCEPT !.edgeIdx = mesh.edgeIdx + 1,
                          !.bend = bendsOfEdge(mesh.bend, mesh.edges[mesh.edgeIdx], mesh.faceNormals)]
  /\ UNCHANGED <<m, scan, col, walk, rep, files>>

BendsReturn ==
  /\ mesh.pc = "bends" /\ mesh.edgeIdx > Len(mesh.edges)
  /\ mesh' = [mesh EXCEPT !.pc = "done", !.bend.totalEdges = Len(mesh.edges)]
  /\ UNCHANGED <<m, scan, col, walk, rep, files>>

InitBends ==
  /\ BendsInit
  /\ m = Idle /\ scan = Idle /\ col = Idle /\ walk = Idle /\ rep = Idle /\ files = Idle

NextBends == MeshVertices \/ MeshFace \/ MeshFacesDone \/ BendsEdge \/ BendsReturn

SpecBends == InitBends /\ [][NextBends]_vars

(***************************************************************************)
(* C8.  While summarizeBends runs and when it has returned, bend count,    *)
(* sum, min, max and histogram are those of the edges handled so far that  *)
(* have exactly two incident triangles whose normals are more than one     *)
(* degree apart; every other edge has changed none of them.  The two quads *)
(* joined at 90 degrees give exactly one bend.  The incident triangles of  *)
(* an edge are the triangles of the mesh having both its end points among  *)
(* their corners.                                                          *)
(***************************************************************************)
FaceCorners(f) ==
  {mesh.originalToUnique[3 * (f - 1) + c] : c \in 1 .. 3}

IncidentFaces(edge) ==
  {f \in 1 .. Len(mesh.faceNormals) : edge.a # edge.b /\ {edge.a, edge.b} \subseteq FaceCorners(f)}

IsBendEdge(edge) ==
  /\ Cardinality(IncidentFaces(edge)) = 2
  /\ LET f1 == MinOf(IncidentFaces(edge))
         f2 == MaxOf(IncidentFaces(edge))
     IN  /\ mesh.faceNormals[f1] # <<0, 0, 0>> /\ mesh.faceNormals[f2] # <<0, 0, 0>>
         /\ angleDeg(mesh.faceNormals[f1], mesh.faceNormals[f2]) > 1000

BendAngle(edge) ==
  angleDeg(mesh.faceNormals[MinOf(IncidentFaces(edge))], mesh.faceNormals[MaxOf(IncidentFaces(edge))])

RECURSIVE SumOfBendAngles(_)
SumOfBendAngles(S) ==
  IF S = {} THEN 0
  ELSE LET x == CHOOSE y \in S : TRUE IN BendAngle(mesh.edges[x]) + SumOfBendAngles(S \ {x})

C8_BendCount ==
  mesh.pc \in {"bends", "done"} =>
    LET handled == {x \in 1 .. mesh.edgeIdx - 1 : IsBendEdge(mesh.edges[x])}
        angles == {BendAngle(mesh.edges[x]) : x \in handled}
        bucket(x) == RoundDiv(BendAngle(mesh.edges[x]), 3000) * 3
    IN  /\ mesh.bend.bendCount = Cardinality(handled)
        /\ mesh.bend.sum = SumOfBendAngles(handled)
        /\ mesh.bend.min = IF handled = {} THEN NullInt ELSE MinOf(angles)
        /\ mesh.bend.max = IF handled = {} THEN NullInt ELSE MaxOf(angles)
        /\ DOMAIN mesh.bend.histogram = {bucket(x) : x \in handled}
        /\ \A key \in DOMAIN mesh.bend.histogram :
             mesh.bend.histogram[key] = Cardinality({x \in handled : bucket(x) = key})
        /\ (mesh.pc = "done" /\ mesh.positions = PickFaces(1 .. 4, 1)) => mesh.bend.bendCount = 1

(***************************************************************************)
(* SpecLoops: the loop walker of analyzeGeometry over the edge list of one *)
(* patch, and analyzeLineGeometry on the positions of one line object.     *)
(* The vertices are the corners of a 3 by 4 rectangle, so every distance   *)
(* is a whole number.  Indices are 1-based.  An edge list holds edges of   *)
(* the edge Map: distinct keys, two different end points (the only         *)
(* triangle of an edge a|a has a zero normal and belongs to no patch).     *)
(***************************************************************************)
Corners == <<<<0, 0, 0>>, <<3, 0, 0>>, <<3, 4, 0>>, <<0, 4, 0>>>>

NoVertex == 0

Sqrt(n) == CHOOSE r \in 0 .. n : r * r = n

distanceTo(u, v) == Sqrt(Dot(Sub(u, v), Sub(u, v)))

\* adjacency: for each vertex its Set of neighbours in insertion order.
addNeighbor(adjacency, from, to) ==
  IF from \notin DOMAIN adjacency THEN (from :> <<to>>) @@ adjacency
  ELSE IF to \in Range(adjacency[from]) THEN adjacency
  ELSE [adjacency EXCEPT ![from] = Append(@, to)]

RECURSIVE buildAdjacency(_, _)
buildAdjacency(adjacency, edgeList) ==
  IF edgeList = <<>> THEN adjacency
  ELSE LET edge == Head(edgeList)
       IN  buildAdjacency(addNeighbor(addNeighbor(adjacency, edge.a, edge.b), edge.b, edge.a),
                          Tail(edgeList))

findNextNeighbor_IgnoreVisited(s, current, prev) ==
  LET neighbors == IF current \in DOMAIN s.adjacency THEN s.adjacency[current] ELSE <<>>
      free == {x \in DOMAIN neighbors : neighbors[x] # prev}
  IN  IF free = {} THEN NoVertex ELSE neighbors[MinOf(free)]

findNextNeighbor(s, current, prev) ==
  LET neighbors == IF current \in DOMAIN s.adjacency THEN s.adjacency[current] ELSE <<>>
      free == {x \in DOMAIN neighbors :
                 neighbors[x] # prev /\ getEdgeKey(current, neighbors[x]) \notin s.visitedEdges}
  IN  IF free = {} THEN NoVertex ELSE neighbors[MinOf(free)]

\* summarizeLoop without the circularity estimate (left at 0).  centroid holds
\* twelve times the centroid, a whole number for loops of 1, 2, 3, 4 or 6
\* points; id and key are the fields the deduplication uses.
summarizeLoop(loop, vertices) ==
  LET ordered == loop.vertices
      points == IF loop.closed THEN SubSeq(ordered, 1, Len(ordered) - 1) ELSE ordered
      RECURSIVE lengthFrom(_)
      lengthFrom(x) ==
        IF x >= Len(ordered) THEN 0
        ELSE distanceTo(vertices[ordered[x]], vertices[ordered[x + 1]]) + lengthFrom(x + 1)
      RECURSIVE sumFrom(_)
      sumFrom(x) ==
        IF x > Len(points) THEN <<0, 0, 0>>
        ELSE [a \in 1 .. 3 |-> vertices[points[x]][a] + sumFrom(x + 1)[a]]
      maxDistSq == MaxOf({0} \cup {Dot(Sub(vertices[points[x]], vertices[points[y]]),
                                       Sub(vertices[points[x]], vertices[points[y]])) :
                                 x, y \in DOMAIN points})
  IN  [id |-> 0, key |-> <<>>, closed |-> loop.closed, lengthMm |-> lengthFrom(1),
       approxDiameterMm |-> Sqrt(maxDistSq), vertexCount |-> Len(points),
       centroid |-> IF loop.closed /\ Len(points) > 0
                    THEN [a \in 1 .. 3 |-> (12 * sumFrom(1)[a]) \div Len(points)]
                    ELSE IF loop.closed THEN <<0, 0, 0>> ELSE NullVec,
       circularity |-> 0]

\* loops.push({ vertices: loop, closed }) and the next edge of the list.
pushLoop(s, loop, closed) ==
  [s EXCEPT !.pc = "pick", !.edgeIdx = s.edgeIdx + 1,
            !.loops = Append(@, [vertices |-> loop, closed |-> closed]),
            !.loop = <<>>, !.current = NoVertex, !.next = NoVertex, !.guard = 0]

walkStep_ClosedAtDeadEnd(s) ==
  LET loop == Append(s.loop, s.next)
      visited == [s EXCEPT !.visitedEdges = @ \cup {getEdgeKey(s.current, s.next)},
                           !.guard = s.guard + 1]
      candidate == findNextNeighbor(visited, s.next, s.current)
  IN  IF s.guard >= 4 * Len(s.edgeList) THEN pushLoop(s, s.loop, FALSE)
      ELSE IF s.next = loop[1] THEN pushLoop(visited, loop, TRUE)
      ELSE IF candidate = NoVertex THEN pushLoop(visited, loop, TRUE)
      ELSE [visited EXCEPT !.loop = loop, !.current = s.next, !.next = candidate]

\* One test of the while condition and, if it holds, one iteration.
walkStep(s) ==
  LET loop == Append(s.loop, s.next)
      visited == [s EXCEPT !.visitedEdges = @ \cup {getEdgeKey(s.current, s.next)},
                           !.guard = s.guard + 1]
      candidate == findNextNeighbor(visited, s.next, s.current)
  IN  IF s.guard >= 4 * Len(s.edgeList) THEN pushLoop(s, s.loop, FALSE)
      ELSE IF s.next = loop[1] THEN pushLoop(visited, loop, TRUE)
      ELSE IF candidate = NoVertex THEN pushLoop(visited, loop, FALSE)
      ELSE [visited EXCEPT !.loop = loop, !.current = s.next, !.next = candidate]

\* analyzeLineGeometry up to the loop and its summary; null is <<>>.
analyzeLine(positions, isClosedHint) ==
  LET n == Len(positions)
      near == distanceTo(positions[1], positions[n]) = 0
      closed == isClosedHint \/ (n > 2 /\ near)
      points == IF closed /\ n > 1 /\ near THEN SubSeq(positions, 1, n - 1) ELSE positions
      indices == [x \in DOMAIN points |-> x]
      loop == [vertices |-> IF closed THEN Append(indices, 1) ELSE indices, closed |-> closed]
  IN  IF n < 2 THEN [loops |-> <<>>, vertices |-> <<>>]
      ELSE IF closed /\ Len(points) < 3 THEN [loops |-> <<>>, vertices |-> <<>>]
      ELSE [loops |-> <<loop>>, vertices |-> points]

MaxEdges == 3

MaxPoints == 3

\* An edge of the list; a = b is the edge a degenerate triangle (a, a, b) adds.
EdgeChoices == {[a |-> a, b |-> b] : a, b \in DOMAIN Corners}

EdgeLists ==
  {es \in SeqsUpTo(EdgeChoices, MaxEdges) :
     \A x, y \in DOMAIN es : x # y => getEdgeKey(es[x].a, es[x].b) # getEdgeKey(es[y].a, es[y].b)}

WalkState(mode, edgeList, vertices, isClosedHint) ==
  [pc |-> "start", mode |-> mode, edgeList |-> edgeList, vertices |-> vertices,
   isClosedHint |-> isClosedHint, adjacency |-> <<>>, visitedEdges |-> {}, edgeIdx |-> 1,
   loop |-> <<>>, current |-> NoVertex, next |-> NoVertex, guard |-> 0,
   loops |-> <<>>, loopSummaries |-> <<>>]

LoopsInit ==
  \/ \E edgeList \in EdgeLists \ {<<>>} : walk = WalkState("mesh", edgeList, Corners, FALSE)
  \/ \E positions \in SeqsUpTo(Range(Corners), MaxPoints), hint \in BOOLEAN :
       walk = WalkState("line", <<>>, positions, hint)

\* The adjacency of the edge list (edgeList.forEach).
WalkBuild ==
  /\ walk.pc = "start" /\ walk.mode = "mesh"
  /\ walk' = [walk EXCEPT !.pc = "pick", !.adjacency = buildAdjacency(<<>>, walk.edgeList)]
  /\ UNCHANGED <<m, scan, col, mesh, rep, files>>

walkPick_EveryEdge(s) ==
  LET edge == s.edgeList[s.edgeIdx]
  IN  [s EXCEPT !.pc = "walk", !.loop = <<edge.a>>, !.current = edge.a,
                !.next = edge.b, !.guard = 0]

\* The head of one iteration of `for (const edge of edgeList)`.
walkPick(s) ==
  LET edge == s.edgeList[s.edgeIdx]
  IN  IF getEdgeKey(edge.a, edge.b) \in s.visitedEdges
      THEN [s EXCEPT !.edgeIdx = s.edgeIdx + 1]
      ELSE [s EXCEPT !.pc = "walk", !.loop = <<edge.a>>, !.current = edge.a,
                     !.next = edge.b, !.guard = 0]

WalkPick ==
  /\ walk.pc = "pick" /\ walk.edgeIdx <= Len(walk.edgeList)
  /\ walk' = walkPick(walk)
  /\ UNCHANGED <<m, scan, col, mesh, rep, files>>

WalkStep ==
  /\ walk.pc = "walk"
  /\ walk' = walkStep(walk)
  /\ UNCHANGED <<m, scan, col, mesh, rep, files>>

\* loops.map((loop) => summarizeLoop(loop, uniqueVertices))
WalkSummarize ==
  /\ walk.pc = "pick" /\ walk.edgeIdx > Len(walk.edgeList)
  /\ walk' = [walk EXCEPT !.pc = "done",
                          !.loopSummaries = [x \in DOMAIN walk.loops |->
                                               summarizeLoop(walk.loops[x], walk.vertices)]]
  /\ UNCHANGED <<m, scan, col, mesh, rep, files>>

LineAnalyze ==
  /\ walk.pc = "start" /\ walk.mode = "line"
  /\ LET r == analyzeLine(walk.vertices, walk.isClosedHint)
     IN  walk' = [walk EXCEPT !.pc = "done", !.loops = r.loops, !.vertices = r.vertices,
                              !.loopSummaries = [x \in DOMAIN r.loops |->
                                                   summarizeLoop(r.loops[x], r.vertices)]]
  /\ UNCHANGED <<m, scan, col, mesh, rep, files>>

InitLoops ==
  /\ LoopsInit
  /\ m = Idle /\ scan = Idle /\ col = Idle /\ mesh = Idle /\ rep = Idle /\ files = Idle

NextLoops == WalkBuild \/ WalkPick \/ WalkStep \/ WalkSummarize \/ LineAnalyze

SpecLoops == InitLoops /\ [][NextLoops]_vars

(***************************************************************************)
(* C9.  Every loop the walker or the line analysis has produced with       *)
(* closed = true starts and ends at the same vertex index, and every       *)
(* summarised loop that visits two vertices at different positions has a   *)
(* length greater than zero.                                               *)
(***************************************************************************)
C9_ClosedLoopsClose ==
  /\ \A x \in DOMAIN walk.loops :
       walk.loops[x].closed =>
         /\ Len(walk.loops[x].vertices) >= 2
         /\ walk.loops[x].vertices[1] = walk.loops[x].vertices[Len(walk.loops[x].vertices)]
  /\ walk.pc = "done" =>
       /\ Len(walk.loopSummaries) = Len(walk.loops)
       /\ \A x \in DOMAIN walk.loops :
            Cardinality({walk.vertices[v] : v \in Range(walk.loops[x].vertices)}) >= 2
              => walk.loopSummaries[x].lengthMm > 0

\* The walker has closed the triangle 1-2-3 (sides 3, 4, 5).
C9_Witness ==
  /\ walk.pc = "done" /\ walk.mode = "mesh"
  /\ Len(walk.loops) = 1 /\ walk.loops[1].closed
  /\ walk.loops[1].vertices = <<1, 2, 3, 1>>
  /\ walk.loopSummaries[1].lengthMm = 12

(***************************************************************************)
(* handleFiles (app.js): the per-file driver.  One call walks its file     *)
(* list; each iteration adds a card, opens a viewport, awaits the reader   *)
(* of the file's type and ends in the catch/finally blocks.  A step of the *)
(* model is the code that runs between two awaits.  The readers suspend at *)
(* file.arrayBuffer() / file.text() and, for STEP, at ensureOcctModule()   *)
(* before that.  A file is its name and what reading it yields: whether    *)
(* the read resolves and whether the reader gets geometry out of it.       *)
(***************************************************************************)
LowerChars ==
  [c \in {"S", "T", "L", "E", "P", "D", "X", "F"} |->
     CASE c = "S" -> "s" [] c = "T" -> "t" [] c = "L" -> "l" [] c = "E" -> "e"
       [] c = "P" -> "p" [] c = "D" -> "d" [] c = "X" -> "x" [] c = "F" -> "f"]

toLowerCase(name) ==
  [x \in DOMAIN name |-> IF name[x] \in DOMAIN LowerChars THEN LowerChars[name[x]] ELSE name[x]]

endsWith(name, suffix) ==
  /\ Len(name) >= Len(suffix)
  /\ SubSeq(name, Len(name) - Len(suffix) + 1, Len(name)) = suffix

fileKind(name) ==
  LET lower == toLowerCase(name)
  IN  IF endsWith(lower, <<".", "s", "t", "l">>) THEN "stl"
      ELSE IF endsWith(lower, <<".", "s", "t", "e", "p">>) \/ endsWith(lower, <<".", "s", "t", "p">>)
           THEN "step"
      ELSE IF endsWith(lower, <<".", "d", "x", "f">>) THEN "dxf"
      ELSE "other"

addCard(f) ==
  [f EXCEPT !.cards = Append(@, [body |-> "processing", pending |-> FALSE]),
            !.card = Len(f.cards) + 1]

updateCardBody(f, card, body) == [f EXCEPT !.cards[card].body = body]

createViewport(f, card) == [f EXCEPT !.viewport = card, !.viewports = @ \cup {card}]

removeViewport(f) == [f EXCEPT !.viewports = @ \ {f.viewport}]

\* ensureOcctModule: the promise is created once and returned ever after.
ensureOcctModule(f) ==
  IF f.occtModulePromise # "null" THEN f
  ELSE IF f.engine = "global" THEN [f EXCEPT !.occtModulePromise = "resolved"]
  ELSE [f EXCEPT !.occtModulePromise = "pending"]

\* The finally block, and the loop's step to the next file.
finallyBlock(f) ==
  [f EXCEPT !.cards[f.card].pending = FALSE, !.loading = FALSE,
            !.card = 0, !.viewport = 0, !.idx = @ + 1, !.pc = "loop"]

\* A catch block that lets the error out of the call.
catchBlock_Rethrow(f) == [f EXCEPT !.pc = "done"]

\* The catch block, followed by the finally block.
catchBlock(f) ==
  LET shown == updateCardBody(f, f.card, "failed")
  IN  finallyBlock(IF f.viewport # 0 THEN removeViewport(shown) ELSE shown)

\* The tail of a reader after its last await: card, viewport and models.
loadDone(f) ==
  LET shown == updateCardBody(f, f.card, "loaded")
  IN  [shown EXCEPT !.cards[f.card].pending = FALSE, !.models = Append(@, f.card)]

\* The loop body up to the first await (or, with none, to the next file).
beginFile(f) ==
  LET kind   == fileKind(f.fileList[f.idx].name)
      added  == addCard(f)
      carded == [added EXCEPT !.cards[added.card].pending = TRUE, !.loading = TRUE,
                              !.viewport = 0]
  IN  IF kind = "other" THEN finallyBlock(updateCardBody(carded, carded.card, "unsupported"))
      ELSE IF ~f.container THEN catchBlock(carded)
      ELSE LET viewed == createViewport(carded, carded.card)
           IN  IF kind = "step"
               THEN [ensureOcctModule(viewed) EXCEPT !.pc = "awaitOcct"]
               ELSE [viewed EXCEPT !.pc = "awaitRead"]

\* loadStep resumes from ensureOcctModule().
resumeOcct(f) ==
  IF f.occtModulePromise = "rejected" THEN catchBlock(f) ELSE [f EXCEPT !.pc = "awaitRead"]

\* A reader resumes from file.arrayBuffer() / file.text().
resumeRead(f) ==
  LET file == f.fileList[f.idx]
  IN  IF file.readable /\ file.valid THEN finallyBlock(loadDone(f)) ELSE catchBlock(f)

Name(stem, ext) == <<stem>> \o ext

FileMenu ==
  { [name |-> Name("a", <<".", "s", "t", "l">>), readable |-> TRUE,  valid |-> TRUE],
    [name |-> Name("a", <<".", "S", "T", "L">>), readable |-> FALSE, valid |-> TRUE],
    [name |-> Name("a", <<".", "s", "t", "l">>), readable |-> TRUE,  valid |-> FALSE],
    [name |-> Name("b", <<".", "s", "t", "e", "p">>), readable |-> TRUE, valid |-> TRUE],
    [name |-> Name("b", <<".", "S", "t", "p">>), readable |-> TRUE,  valid |-> FALSE],
    [name |-> Name("c", <<".", "d", "x", "f">>), readable |-> TRUE,  valid |-> TRUE],
    [name |-> Name("c", <<".", "D", "X", "F">>), readable |-> TRUE,  valid |-> FALSE],
    [name |-> Name("d", <<".", "t", "x", "t">>), readable |-> TRUE,  valid |-> TRUE] }

MaxFiles == 2

\* Where the STEP engine comes from: already on window, loaded by the
\* factory, or never usable (invalid module, or the 15 s timeout).
Engines == {"global", "loads", "broken"}

FilesInit(fileList, container, engine) ==
  [pc |-> "loop", fileList |-> fileList, idx |-> 1, cards |-> <<>>, card |-> 0, viewport |-> 0,
   viewports |-> {}, loading |-> FALSE, models |-> <<>>, container |-> container,
   engine |-> engine, occtModulePromise |-> "null"]

FileBegin ==
  /\ files.pc = "loop" /\ files.idx <= Len(files.fileList)
  /\ files' = beginFile(files)
  /\ UNCHANGED <<m, scan, col, mesh, walk, rep>>

OcctSettle ==
  /\ files.occtModulePromise = "pending"
  /\ files' = [files EXCEPT !.occtModulePromise =
                              IF files.engine \in {"global", "loads"} THEN "resolved" ELSE "rejected"]
  /\ UNCHANGED <<m, scan, col, mesh, walk, rep>>

FileResumeOcct ==
  /\ files.pc = "awaitOcct" /\ files.occtModulePromise \in {"resolved", "rejected"}
  /\ files' = resumeOcct(files)
  /\ UNCHANGED <<m, scan, col, mesh, walk, rep>>

FileResumeRead ==
  /\ files.pc = "awaitRead"
  /\ files' = resumeRead(files)
  /\ UNCHANGED <<m, scan, col, mesh, walk, rep>>

FilesReturn ==
  /\ files.pc = "loop" /\ files.idx > Len(files.fileList)
  /\ files' = [files EXCEPT !.pc = "done"]
  /\ UNCHANGED <<m, scan, col, mesh, walk, rep>>

InitFiles ==
  /\ m = Idle /\ scan = Idle /\ col = Idle /\ mesh = Idle /\ walk = Idle /\ rep = Idle
  /\ \E fileList \in SeqsUpTo(FileMenu, MaxFiles), container \in BOOLEAN, engine \in Engines :
       files = FilesInit(fileList, container, engine)

NextFiles == FileBegin \/ OcctSettle \/ FileResumeOcct \/ FileResumeRead \/ FilesReturn

\* The event loop runs every continuation that is ready, a file read
\* settles, and the engine's promise settles (at the latest by its timeout).
SpecFiles == InitFiles /\ [][NextFiles]_vars /\ WF_vars(NextFiles)

(***************************************************************************)
(* C10: a fatal error while loading one file aborts only that file: the    *)
(* error is written to that file's card and every later file of the list   *)
(* is still processed.  Every file that the loop has left has a card that  *)
(* is not pending and shows the state its own content calls for (loaded,   *)
(* failed or unsupported, whatever happened to the files before it), and   *)
(* the call eventually returns with every file of the list in that state.  *)
(***************************************************************************)
FinalBody(file) ==
  LET kind == fileKind(file.name)
  IN  IF kind = "other" THEN "unsupported"
      ELSE IF ~files.container THEN "failed"
      ELSE IF kind = "step" /\ files.engine = "broken" THEN "failed"
      ELSE IF file.readable /\ file.valid THEN "loaded"
      ELSE "failed"

FileSettled(x) ==
  /\ x \in DOMAIN files.cards
  /\ files.cards[x] = [body |-> FinalBody(files.fileList[x]), pending |-> FALSE]

AllFilesSettled ==
  /\ files.pc = "done"
  /\ Len(files.cards) = Len(files.fileList)
  /\ \A x \in DOMAIN files.fileList : FileSettled(x)

callView(e, c) ==
  [pc |-> e.calls[c].pc, fileList |-> e.calls[c].fileList, idx |-> e.calls[c].idx,
   card |-> e.calls[c].card, viewport |-> e.calls[c].viewport,
   cards |-> e.cards, viewports |-> e.viewports, loading |-> e.loading,
   models |-> e.models, container |-> e.container, engine |-> e.engine,
   occtModulePromise |-> e.occtModulePromise]

storeCall(e, c, r) ==
  LET call == [pc |-> r.pc, fileList |-> r.fileList, idx |-> r.idx, card |-> r.card,
               viewport |-> r.viewport]
  IN  [calls |-> IF c \in DOMAIN e.calls THEN [e.calls EXCEPT ![c] = call]
                 ELSE Append(e.calls, call),
       cards |-> r.cards, viewports |-> r.viewports, loading |-> r.loading,
       models |-> r.models, container |-> r.container, engine |-> r.engine,
       occtModulePromise |-> r.occtModulePromise]

\* handleFiles from the loop head to the call's next suspension or its end.
RECURSIVE handleFiles(_)
handleFiles(f) ==
  IF f.pc # "loop" THEN f
  ELSE IF f.idx > Len(f.fileList) THEN [f EXCEPT !.pc = "done"]
  ELSE handleFiles(beginFile(f))

\* An event handler calls handleFiles(fileList) as a new call.
startCall(e, fileList) ==
  LET fresh == [pc |-> "loop", fileList |-> fileList, idx |-> 1, card |-> 0, viewport |-> 0]
      c     == Len(e.calls) + 1
      begun == [e EXCEPT !.calls = Append(@, fresh)]
  IN  storeCall(begun, c, handleFiles(callView(begun, c)))

EventFiles ==
  { [name |-> Name("a", <<".", "s", "t", "l">>), readable |-> TRUE, valid |-> TRUE],
    [name |-> Name("b", <<".", "s", "t", "e", "p">>), readable |-> TRUE, valid |-> TRUE],
    [name |-> Name("b", <<".", "S", "t", "p">>), readable |-> TRUE, valid |-> FALSE],
    [name |-> Name("d", <<".", "t", "x", "t">>), readable |-> TRUE, valid |-> TRUE] }

MaxCalls == 2

EventLists(e) ==
  {l \in SeqsUpTo(EventFiles, MaxFiles) : Len(e.cards) + Len(l) <= MaxFiles + 1}

EventsInit(engine) ==
  [calls |-> <<>>, cards |-> <<>>, viewports |-> {}, loading |-> FALSE, models |-> <<>>,
   container |-> TRUE, engine |-> engine, occtModulePromise |-> "null"]

DropEvent ==
  /\ Len(files.calls) < MaxCalls
  /\ \E fileList \in EventLists(files) : files' = startCall(files, fileList)
  /\ UNCHANGED <<m, scan, col, mesh, walk, rep>>

ChangeEvent ==
  /\ Len(files.calls) < MaxCalls
  /\ \E fileList \in EventLists(files) :
       /\ Len(fileList) > 0
       /\ files' = startCall(files, fileList)
  /\ UNCHANGED <<m, scan, col, mesh, walk, rep>>

\* The engine's script finishes loading: window.occt or window.occtimportjs appears.
EngineArrives ==
  /\ files.engine = "absent"
  /\ \E engine \in Engines : files' = [files EXCEPT !.engine = engine]
  /\ UNCHANGED <<m, scan, col, mesh, walk, rep>>

EventOcctSettle ==
  /\ files.occtModulePromise = "pending"
  /\ files' = [files EXCEPT !.occtModulePromise =
                              IF files.engine \in {"global", "loads"} THEN "resolved"
                              ELSE "rejected"]
  /\ UNCHANGED <<m, scan, col, mesh, walk, rep>>

CallResumeOcct(c) ==
  /\ files.calls[c].pc = "awaitOcct"
  /\ files.occtModulePromise \in {"resolved", "rejected"}
  /\ files' = storeCall(files, c, handleFiles(resumeOcct(callView(files, c))))
  /\ UNCHANGED <<m, scan, col, mesh, walk, rep>>

CallResumeRead(c) ==
  /\ files.calls[c].pc = "awaitRead"
  /\ files' = storeCall(files, c, handleFiles(resumeRead(callView(files, c))))
  /\ UNCHANGED <<m, scan, col, mesh, walk, rep>>

CallResume == \E c \in DOMAIN files.calls : CallResumeOcct(c) \/ CallResumeRead(c)

InitEvents ==
  /\ m = Idle /\ scan = Idle /\ col = Idle /\ mesh = Idle /\ walk = Idle /\ rep = Idle
  /\ \E engine \in Engines \cup {"absent"} : files = EventsInit(engine)

NextEvents == DropEvent \/ ChangeEvent \/ EngineArrives \/ EventOcctSettle \/ CallResume

\* Suspended calls are resumed and the engine's promise settles; events and
\* the arrival of the engine's script are up to the environment.
SpecEvents ==
  InitEvents /\ [][NextEvents]_vars /\ WF_vars(EventOcctSettle) /\ WF_vars(CallResume)

(***************************************************************************)
(* C11: files are processed one at a time: over any sequence of drop and   *)
(* file-picker events, while one file's load is suspended at an await no   *)
(* other file's processing starts, so at most one load is ever in flight.  *)
(***************************************************************************)
Suspended == {c \in DOMAIN files.calls : files.calls[c].pc \in {"awaitOcct", "awaitRead"}}

C11_OneLoadAtATime == Cardinality(Suspended) <= 1

(***************************************************************************)
(* C12: a failure of the triangulation engine aborts that file only: a     *)
(* STEP file whose load starts when the engine is available is not handed  *)
(* the failure of an earlier file.                                         *)
(***************************************************************************)
StartsStepLoad(c) ==
  /\ files'.calls[c].pc = "awaitOcct"
  /\ \/ c \notin DOMAIN files.calls
     \/ files.calls[c].pc # "awaitOcct"
     \/ files.calls[c].idx # files'.calls[c].idx

C12_LaterStepFileNotFailed ==
  [][\A c \in DOMAIN files'.calls :
       StartsStepLoad(c) /\ files.engine \in {"global", "loads"}
         => files'.occtModulePromise # "rejected"]_vars

(***************************************************************************)
(* C13: no emitted primitive has fewer than its minimum number of          *)
(* vertices: every line, polyline or loop of the scene that parse returns  *)
(* (inside block instances too) has at least 2 vertices; an entity that    *)
(* would have fewer is dropped.                                            *)
(***************************************************************************)
RECURSIVE Primitives(_)
Primitives(objects) ==
  IF objects = <<>> THEN <<>>
  ELSE (IF Head(objects).kind = "Group" THEN Primitives(Head(objects).children)
        ELSE <<Head(objects)>>) \o Primitives(Tail(objects))

\* The number of points of a primitive: a circle's are its tessellation's.
VertexCount(object) == IF object.curve # <<>> THEN object.curve[5] ELSE Len(object.verts)

C13_MinimumVertices ==
  m.pc = "done" => \A x \in DOMAIN Primitives(m.group) : VertexCount(Primitives(m.group)[x]) >= 2

(***************************************************************************)
(* SpecLoader: one DXFLoader instance on which parse is called up to       *)
(* MaxParses times.  The instance keeps options, _materialCache and        *)
(* metadata from its constructor on; parse makes a new group and a new     *)
(* state (layers, blocks, header) on every call.  The material cache maps  *)
(* a colour to the line material made for it, here the material's colour.  *)
(***************************************************************************)
\* The materials _createLine has made by the end of a parse, added to the cache.
materialsAfter(s) ==
  LET blockObjects == UNION {Range(Primitives(s.blocks[b])) : b \in DOMAIN s.blocks}
      colors == {o.color : o \in Range(Primitives(s.group)) \cup blockObjects}
  IN  [c \in DOMAIN s.materials \cup colors |->
         IF c \in DOMAIN s.materials THEN s.materials[c] ELSE c]

\* The scene as drawn: each primitive with the colour of its material.
Scene(s) ==
  LET list == Primitives(s.group)
      cache == materialsAfter(s)
  IN  [x \in DOMAIN list |->
         [kind |-> list[x].kind, closed |-> list[x].kind = "LineLoop",
          color |-> cache[list[x].color], verts |-> list[x].verts, curve |-> list[x].curve]]

\* getMetadata(): this.metadata as it stands.
getMetadata(s) == [entityCounts |-> s.counts, layerCount |-> s.layerCount, units |-> s.units]

ParseResult(s) ==
  [isString |-> s.isString, pairs |-> s.pairs, pc |-> s.pc, err |-> s.err,
   scene |-> Scene(s), metadata |-> getMetadata(s)]

\* new DXFLoader(): the constructor, then the first call of parse.
newLoader(isString, pairs) ==
  ParseCall(isString, pairs) @@ [materials |-> <<>>, earlier |-> <<>>]

\* A call of parse that carries the previous call's group over.
loaderParse_KeepGroup(s, isString, pairs) ==
  [ParseCall(isString, pairs) EXCEPT !.group = s.group]
    @@ [materials |-> materialsAfter(s), earlier |-> Append(s.earlier, ParseResult(s))]

\* A further call of parse on the instance: metadata and cache are the instance's.
loaderParse(s, isString, pairs) ==
  [ParseCall(isString, pairs) EXCEPT !.counts = s.counts, !.layerCount = s.layerCount,
                                     !.units = s.units]
    @@ [materials |-> materialsAfter(s), earlier |-> Append(s.earlier, ParseResult(s))]

Entities(ents) == <<SECTION, Pair(2, "ENTITIES")>> \o ents \o <<ENDSEC, Pair(0, "EOF")>>

LoaderTexts ==
  { HeaderSection \o ObjectsSection \o TablesSection \o BlocksSection
      \o Entities(GoodLine \o InsertB1 \o ClosedPolyline),
    Entities(GoodCircle \o DegenerateLine),
    TablesSection \o Entities(GoodLine),
    Entities(DegenerateLine),
    <<>> }

MaxParses == 3

LoaderParse ==
  /\ Finished(m) /\ Len(m.earlier) + 1 < MaxParses
  /\ \/ \E pairs \in LoaderTexts : m' = loaderParse(m, TRUE, pairs)
     \/ m' = loaderParse(m, FALSE, <<>>)
  /\ UNCHANGED <<scan, col, mesh, walk, rep, files>>

InitLoader ==
  /\ \/ \E pairs \in LoaderTexts : m = newLoader(TRUE, pairs)
     \/ m = newLoader(FALSE, <<>>)
  /\ scan = Idle /\ col = Idle /\ mesh = Idle /\ walk = Idle /\ rep = Idle /\ files = Idle

NextLoader == Next \/ LoaderParse

SpecLoader == InitLoader /\ [][NextLoader]_vars

\* The same input parsed by an instance of its own.
FreshParse(s) == Run(newLoader(s.isString, s.pairs))

(***************************************************************************)
(* C14: parsing the same drawing text twice, on one loader instance or on  *)
(* two fresh instances, yields primitive lists of the same length whose    *)
(* i-th primitives have the same kind, closed flag, resolved colour and    *)
(* vertex sequence: a finished parse has the outcome and scene of a parse  *)
(* of that text by a fresh instance, and of every earlier parse of that    *)
(* text by the same instance.                                              *)
(***************************************************************************)
C14_SameTextSameGeometry ==
  Finished(m) =>
    /\ m.pc = FreshParse(m).pc
    /\ Scene(m) = Scene(FreshParse(m))
    /\ \A x \in DOMAIN m.earlier :
         m.earlier[x].isString = m.isString /\ m.earlier[x].pairs = m.pairs
           => m.earlier[x].pc = m.pc /\ m.earlier[x].scene = Scene(m)

\* The full drawing parsed, then the circle drawing, then the full drawing again.
C14_Witness ==
  /\ m.pc = "done" /\ Len(m.earlier) = 2
  /\ m.earlier[1].pairs = m.pairs /\ m.earlier[1].pc = "done"
  /\ m.earlier[2].pairs # m.pairs /\ m.earlier[2].pc = "done"
  /\ Len(Scene(m)) = 3
  /\ DOMAIN m.materials # {}

(***************************************************************************)
(* C15: each parse call works on fresh state: the layers, blocks, header   *)
(* values and the metadata reported afterwards (entity counts, layer       *)
(* count, units) for a text are those a fresh instance reports for it,     *)
(* whatever was parsed earlier with the same loader and whether or not an  *)
(* earlier parse failed.                                                   *)
(***************************************************************************)
C15_FreshStatePerParse ==
  Finished(m) =>
    /\ m.layers = FreshParse(m).layers
    /\ m.blocks = FreshParse(m).blocks
    /\ m.header = FreshParse(m).header
    /\ getMetadata(m) = getMetadata(FreshParse(m))

(***************************************************************************)
(* analyzeDxfEntities (app.js): the entity-aware analysis of a DXF scene.  *)
(* group.traverse calls the callback on every object; a child here is an   *)
(* object with geometry: its type and its points in world coordinates.     *)
(* Lengths are whole millimetres, so `> 0.01`, `< 0.01` and the vertex     *)
(* merge tolerance compare against 0.  The closed children of the model    *)
(* have fewer than 4 points, for which the circularity stays 0.            *)
(***************************************************************************)
RECURSIVE pathLength(_)
pathLength(points) ==
  IF Len(points) < 2 THEN 0
  ELSE distanceTo(points[1], points[2]) + pathLength(Tail(points))

RECURSIVE sumPoints(_)
sumPoints(points) ==
  IF points = <<>> THEN <<0, 0, 0>>
  ELSE LET rest == sumPoints(Tail(points))
       IN  [a \in 1 .. 3 |-> Head(points)[a] + rest[a]]

\* The callback of group.traverse on one child.  counted is the history of
\* the additions to totalLength: the ids of the children whose length went in.
dxfChild(s, id, child) ==
  LET isClosed  == child.type = "LineLoop"
      points    == child.points
      first     == points[1]
      last      == points[Len(points)]
      closes    == isClosed /\ Len(points) > 2 /\ distanceTo(first, last) > 0
      length    == pathLength(points) + (IF closes THEN distanceTo(last, first) ELSE 0)
      total     == sumPoints(points)
      centroid  == [a \in 1 .. 3 |-> total[a] \div Len(points)]
      diameter  == MaxOf({distanceTo(points[x], points[y]) : x, y \in DOMAIN points})
      openLoop  == [id |-> id, key |-> <<>>, closed |-> FALSE, lengthMm |-> length,
                    approxDiameterMm |-> 0, vertexCount |-> Len(points),
                    centroid |-> NullVec, circularity |-> 0]
      closedLoop == [id |-> id, key |-> <<>>, closed |-> TRUE, lengthMm |-> length,
                     approxDiameterMm |-> diameter, vertexCount |-> Len(points),
                     centroid |-> centroid, circularity |-> 0]
  IN  IF Len(points) < 2 THEN s
      ELSE IF ~isClosed \/ length <= 0
      THEN IF ~isClosed /\ length > 0
           THEN [s EXCEPT !.analysis.openLoops = Append(@, openLoop),
                          !.totalLength = @ + length, !.counted = Append(@, id)]
           ELSE s
      ELSE [s EXCEPT !.allLoops = Append(@, closedLoop),
                     !.totalLength = @ + length, !.counted = Append(@, id)]

\* After the traversal: deduplicate, sort, classify.
dxfFinish(s) ==
  LET uniqueLoops == sortByLengthDescending(
                       dedupeClosedLoops(SelectSeq(s.allLoops, LAMBDA l : l.closed)))
      openLoops   == SelectSeq(s.allLoops, LAMBDA l : ~l.closed)
  IN  [s EXCEPT
         !.pc = "done",
         !.analysis = [@ EXCEPT
            !.outerPerimeterMm = IF Len(uniqueLoops) > 0 THEN uniqueLoops[1].lengthMm ELSE @,
            !.holes = IF Len(uniqueLoops) > 0 THEN Tail(uniqueLoops) ELSE @,
            !.loops = uniqueLoops \o openLoops,
            !.openLoops = openLoops,
            !.totalCutLengthMm = s.totalLength,
            !.flatPattern = [isLikelyFlat |-> TRUE, dominantPlane |-> "Z",
                             largestPatchRatio |-> 1, aspectRatio |-> 0]]]

ChildMenu ==
  { [type |-> "Line", points |-> <<<<0, 0, 0>>, <<3, 4, 0>>>>],
    [type |-> "Line", points |-> <<<<0, 0, 0>>, <<3, 0, 0>>, <<3, 4, 0>>>>],
    [type |-> "Line", points |-> <<<<1, 1, 0>>>>],
    [type |-> "Line", points |-> <<<<1, 1, 0>>, <<1, 1, 0>>>>],
    [type |-> "LineLoop", points |-> <<<<0, 0, 0>>, <<3, 0, 0>>, <<0, 0, 0>>>>],
    [type |-> "LineLoop", points |-> <<<<0, 0, 0>>, <<9, 0, 0>>, <<9, 12, 0>>>>],
    [type |-> "LineLoop", points |-> <<<<1, 1, 0>>, <<1, 1, 0>>>>] }

DxfInit(children) ==
  [pc |-> "traverse", children |-> children, n |-> 1, analysis |-> createEmptyAnalysis,
   allLoops |-> <<>>, totalLength |-> 0, counted |-> <<>>]

DxfChild ==
  /\ rep.pc = "traverse" /\ rep.n <= Len(rep.children)
  /\ rep' = [dxfChild(rep, rep.n, rep.children[rep.n]) EXCEPT !.n = rep.n + 1]
  /\ UNCHANGED <<m, scan, col, mesh, walk, files>>

DxfFinish ==
  /\ rep.pc = "traverse" /\ rep.n > Len(rep.children)
  /\ rep' = dxfFinish(rep)
  /\ UNCHANGED <<m, scan, col, mesh, walk, files>>

InitDxf ==
  /\ \E children \in SeqsUpTo(ChildMenu, MaxLoops) : rep = DxfInit(children)
  /\ m = Idle /\ scan = Idle /\ col = Idle /\ mesh = Idle /\ walk = Idle /\ files = Idle

NextDxf == DxfChild \/ DxfFinish

SpecDxf == InitDxf /\ [][NextDxf]_vars

(***************************************************************************)
(* C16: every open (unclosed) chain whose length is counted in a report's  *)
(* total cut length is listed in that report's open-chain list: in the     *)
(* finished DXF entity analysis, each child that is not a closed loop and  *)
(* whose length went into the total is an entry of openLoops.              *)
(***************************************************************************)
C16_OpenChainsListed ==
  rep.pc = "done" =>
    \A x \in DOMAIN rep.counted :
      rep.children[rep.counted[x]].type # "LineLoop"
        => \E y \in DOMAIN rep.analysis.openLoops :
             rep.analysis.openLoops[y].id = rep.counted[x]

(***************************************************************************)
(* SpecArc: _parseArc on an ARC entity whose start and end angles are any  *)
(* two of the angle tokens (or are left out).                              *)
(***************************************************************************)
AngleTokens == {"0", "10", "90", "350", "360", "720", "-90"}

ArcEntities ==
  {<<Pair(0, "ARC")>> \o first \o <<Pair(40, radius)>> \o second :
     first \in {<<>>} \cup {<<Pair(50, a)>> : a \in AngleTokens},
     second \in {<<>>} \cup {<<Pair(51, a)>> : a \in AngleTokens},
     radius \in {"2", "0"}}

ArcCall ==
  /\ m.pc = "arc"
  /\ m' = [m EXCEPT !.pc = "done", !.arc = parseArc(m.pairs, 2, <<>>)]
  /\ UNCHANGED <<scan, col, mesh, walk, rep, files>>

InitArc ==
  /\ \E pairs \in ArcEntities :
       m = [pc |-> "arc", pairs |-> pairs, arc |-> [object |-> NoObject, next |-> 0]]
  /\ scan = Idle /\ col = Idle /\ mesh = Idle /\ walk = Idle /\ rep = Idle /\ files = Idle

NextArc == ArcCall

SpecArc == InitArc /\ [][NextArc]_vars

(***************************************************************************)
(* C17: for every pair of ARC start and end angles, the sweep used to      *)
(* tessellate the arc is strictly positive after normalization.            *)
(***************************************************************************)
C17_SweepPositive ==
  m.pc = "done" /\ m.arc.object.kind # "null" => m.arc.object.curve[7] > 0

(***************************************************************************)
(* _bulgeToArc: the expansion of a polyline segment with a bulge into arc  *)
(* points.  The model takes chords parallel to an axis, of even length,    *)
(* and bulges 1 and -1 (semicircles), where the radius, the centre and the *)
(* angles are whole numbers: angles are degrees (units of pi/180), and the *)
(* points come out in thousandths of a unit, Math.cos and Math.sin being   *)
(* given to three decimals on the multiples of 10 degrees.                 *)
(***************************************************************************)
CosMilli ==
  <<1000, 985, 940, 866, 766, 643, 500, 342, 174, 0, -174, -342, -500, -643, -766, -866,
    -940, -985, -1000, -985, -940, -866, -766, -643, -500, -342, -174, 0, 174, 342, 500,
    643, 766, 866, 940, 985>>

cosMilli(deg) == CosMilli[((deg + 720) % 360) \div 10 + 1]

sinMilli(deg) == cosMilli(deg - 90)

\* Math.atan2 on a vector along an axis, in degrees.
atan2Deg(y, x) ==
  IF y = 0 THEN (IF x >= 0 THEN 0 ELSE 180)
  ELSE IF y > 0 THEN 90 ELSE 0 - 90

\* An expansion whose loop runs over step = 0 .. steps - 1.
bulgeToArc_FromStepZero(start, end, bulge) ==
  LET chord == <<end[1] - start[1], end[2] - start[2]>>
      chordLength == Sqrt(chord[1] * chord[1] + chord[2] * chord[2])
      half == chordLength \div 2
      sagitta == bulge * half
      radius == (half * half + sagitta * sagitta) \div (2 * Abs(sagitta))
      centerOffset == Sqrt(MaxOf({radius * radius - half * half, 0}))
      chordMid == <<(start[1] + end[1]) \div 2, (start[2] + end[2]) \div 2>>
      perp == <<(0 - chord[2]) \div chordLength, chord[1] \div chordLength>>
      offset == IF sagitta >= 0 THEN centerOffset ELSE 0 - centerOffset
      center == <<chordMid[1] + perp[1] * offset, chordMid[2] + perp[2] * offset>>
      startAngle == atan2Deg(start[2] - center[2], start[1] - center[1])
      endAngle == atan2Deg(end[2] - center[2], end[1] - center[1])
      raw == endAngle - startAngle
      sweep == IF bulge > 0 /\ raw < 0 THEN raw + 360
               ELSE IF bulge < 0 /\ raw > 0 THEN raw - 360 ELSE raw
      ceil == (Abs(sweep) + DEFAULT_ARC_SEGMENT_DEG - 1) \div DEFAULT_ARC_SEGMENT_DEG
      steps == IF ceil > 4 THEN ceil ELSE 4
      point(step) == LET angle == startAngle + (sweep * step) \div steps
                     IN  <<center[1] * 1000 + radius * cosMilli(angle),
                           center[2] * 1000 + radius * sinMilli(angle), start[3] * 1000>>
  IN  IF chordLength = 0
      THEN [points |-> <<[a \in 1 .. 3 |-> end[a] * 1000]>>, center |-> <<>>, radius |-> 0]
      ELSE [points |-> [step \in 1 .. steps |-> point(step - 1)],
            center |-> center, radius |-> radius]

bulgeToArc(start, end, bulge) ==
  LET chord == <<end[1] - start[1], end[2] - start[2]>>
      chordLength == Sqrt(chord[1] * chord[1] + chord[2] * chord[2])
      half == chordLength \div 2
      sagitta == bulge * half
      radius == (half * half + sagitta * sagitta) \div (2 * Abs(sagitta))
      centerOffset == Sqrt(MaxOf({radius * radius - half * half, 0}))
      chordMid == <<(start[1] + end[1]) \div 2, (start[2] + end[2]) \div 2>>
      perp == <<(0 - chord[2]) \div chordLength, chord[1] \div chordLength>>
      offset == IF sagitta >= 0 THEN centerOffset ELSE 0 - centerOffset
      center == <<chordMid[1] + perp[1] * offset, chordMid[2] + perp[2] * offset>>
      startAngle == atan2Deg(start[2] - center[2], start[1] - center[1])
      endAngle == atan2Deg(end[2] - center[2], end[1] - center[1])
      raw == endAngle - startAngle
      sweep == IF bulge > 0 /\ raw < 0 THEN raw + 360
               ELSE IF bulge < 0 /\ raw > 0 THEN raw - 360 ELSE raw
      ceil == (Abs(sweep) + DEFAULT_ARC_SEGMENT_DEG - 1) \div DEFAULT_ARC_SEGMENT_DEG
      steps == IF ceil > 4 THEN ceil ELSE 4
      point(step) == LET angle == startAngle + (sweep * step) \div steps
                     IN  <<center[1] * 1000 + radius * cosMilli(angle),
                           center[2] * 1000 + radius * sinMilli(angle), start[3] * 1000>>
  IN  IF chordLength = 0
      THEN [points |-> <<[a \in 1 .. 3 |-> end[a] * 1000]>>, center |-> <<>>, radius |-> 0]
      ELSE [points |-> [step \in 1 .. steps |-> point(step)],
            center |-> center, radius |-> radius]

BulgePoints == {<<x, y, z>> : x \in {0, 10}, y \in {0, 10}, z \in {0, 2}}

BulgeCall ==
  /\ m.pc = "bulge"
  /\ m' = [m EXCEPT !.pc = "done", !.arc = bulgeToArc(m.start, m.end, m.bulge)]
  /\ UNCHANGED <<scan, col, mesh, walk, rep, files>>

InitBulge ==
  /\ \E start \in BulgePoints, end \in BulgePoints, bulge \in {1, 0 - 1} :
       /\ start[1] = end[1] \/ start[2] = end[2]
       /\ m = [pc |-> "bulge", start |-> start, end |-> end, bulge |-> bulge,
               arc |-> [points |-> <<>>, center |-> <<>>, radius |-> 0]]
  /\ scan = Idle /\ col = Idle /\ mesh = Idle /\ walk = Idle /\ rep = Idle /\ files = Idle

NextBulge == BulgeCall

SpecBulge == InitBulge /\ [][NextBulge]_vars

(***************************************************************************)
(* C18: for the segment from (0,0,0) to (10,0,0) with bulge 1, the         *)
(* expanded points all lie at distance 5 from the computed centre, the     *)
(* largest perpendicular distance of an expanded point from the chord (the *)
(* x axis) is 5, half the chord length, and the last expanded point is the *)
(* segment's end point; all three to within 5 thousandths.                 *)
(***************************************************************************)
SquaredDistanceFromCentre(point) ==
  (point[1] - m.arc.center[1] * 1000) * (point[1] - m.arc.center[1] * 1000)
    + (point[2] - m.arc.center[2] * 1000) * (point[2] - m.arc.center[2] * 1000)

C18_Semicircle ==
  m.pc = "done" /\ m.start = <<0, 0, 0>> /\ m.end = <<10, 0, 0>> /\ m.bulge = 1 =>
    LET points == m.arc.points
        last == points[Len(points)]
    IN  /\ \A x \in DOMAIN points :
             /\ SquaredDistanceFromCentre(points[x]) >= 4995 * 4995
             /\ SquaredDistanceFromCentre(points[x]) <= 5005 * 5005
        /\ Abs(MaxOf({Abs(points[x][2]) : x \in DOMAIN points}) - 5000) <= 5
        /\ \A a \in 1 .. 3 : Abs(last[a] - m.end[a] * 1000) <= 5

C18_Witness ==
  /\ m.pc = "done" /\ m.start = <<0, 0, 0>> /\ m.end = <<10, 0, 0>> /\ m.bulge = 1
  /\ Len(m.arc.points) = 18
  /\ m.arc.center = <<5, 0>> /\ m.arc.radius = 5
  /\ m.arc.points[9] = <<5000, 0 - 5000, 0>>

(***************************************************************************)
(* The loop walk within one walk domain (app.js 758-826 for the edge list  *)
(* of one patch, part_001 466-514 for the boundary-edge list), under       *)
(* SpecLoops.                                                              *)
(***************************************************************************)
\* The edges the extracted loops and the loop under construction have crossed.
RECURSIVE Crossings(_)
Crossings(loop) ==
  IF Len(loop) < 2 THEN <<>>
  ELSE <<getEdgeKey(loop[1], loop[2])>> \o Crossings(Tail(loop))

TimesCrossed(key) ==
  LET crossed == Flatten([x \in DOMAIN walk.loops |-> Crossings(walk.loops[x].vertices)])
                   \o Crossings(walk.loop)
  IN  Cardinality({x \in DOMAIN crossed : crossed[x] = key})

EdgeKeys == {getEdgeKey(walk.edgeList[x].a, walk.edgeList[x].b) : x \in DOMAIN walk.edgeList}

Degree(v) == Cardinality({x \in DOMAIN walk.edgeList : v \in {walk.edgeList[x].a, walk.edgeList[x].b}})

\* What is left to do: list entries not yet picked and edges not yet crossed.
WalkRank ==
  IF walk.pc = "done" THEN 0
  ELSE 1 + 3 * (Len(walk.edgeList) + 1 - walk.edgeIdx)
         + 2 * Cardinality(EdgeKeys \ walk.visitedEdges)
         + (IF walk.pc = "pick" THEN 1 ELSE 0)
         + (IF walk.pc = "start" THEN 2 ELSE 0)

\* The guards of the actions of NextLoops: one of them holds.
CanStep ==
  \/ walk.pc = "start" /\ walk.mode \in {"mesh", "line"}
  \/ walk.pc = "pick" /\ walk.edgeIdx <= Len(walk.edgeList)
  \/ walk.pc = "pick" /\ walk.edgeIdx > Len(walk.edgeList)
  \/ walk.pc = "walk"

(***************************************************************************)
(* C19.  On every edge list the walk ends: a step is possible until it is  *)
(* done and every step lowers WalkRank, a natural number.  While it runs   *)
(* no edge has been crossed twice and the iteration count of a walk stays  *)
(* below 4 times the edge count, so no walk ends on the cap; when it is    *)
(* done every edge of the list has been crossed exactly once, in exactly   *)
(* one loop.                                                               *)
(***************************************************************************)
C19_EveryEdgeOnce ==
  /\ [](walk.mode = "mesh" =>
          /\ \A key \in EdgeKeys : TimesCrossed(key) <= 1
          /\ walk.pc = "walk" => walk.guard < 4 * Len(walk.edgeList)
          /\ walk.pc = "done" => \A key \in EdgeKeys : TimesCrossed(key) = 1)
  /\ [](walk.pc # "done" => CanStep)
  /\ [][WalkRank' < WalkRank /\ WalkRank' >= 0]_vars

\* Three edges meet at one vertex and the walk has ended with all of them crossed.
C19_Witness ==
  /\ walk.pc = "done" /\ walk.mode = "mesh"
  /\ Len(walk.edgeList) = 3
  /\ \E v \in DOMAIN Corners : Degree(v) = 3
  /\ Len(walk.loops) >= 2
  /\ \A key \in EdgeKeys : TimesCrossed(key) = 1

(***************************************************************************)
(* analyzeGeometry (app.js) from the position attribute to the total cut   *)
(* length: vertices, faces and edges as in SpecBends, then the flood fill  *)
(* of coplanar faces into patches, the attribution of edges to patches,    *)
(* the loop walk of each patch's edge list, the summaries, their           *)
(* deduplication and the total.  The walk of one edge list is the walker   *)
(* of SpecLoops run to its end.                                            *)
(***************************************************************************)
NoPatch == 0 - 1

\* Set.prototype.add on a Set kept in insertion order.
addToSet(set, x) == IF x \in Range(set) THEN set ELSE Append(set, x)

\* The double loop over edge.faces, from the pair (i, j) on.
RECURSIVE neighborPairs(_, _, _, _)
neighborPairs(faceNeighbors, faces, i, j) ==
  IF i > Len(faces) THEN faceNeighbors
  ELSE IF j > Len(faces) THEN neighborPairs(faceNeighbors, faces, i + 1, i + 2)
  ELSE LET aFace == faces[i]
           bFace == faces[j]
           withB == [faceNeighbors EXCEPT ![aFace] = addToSet(@, bFace)]
       IN  neighborPairs([withB EXCEPT ![bFace] = addToSet(@, aFace)], faces, i, j + 1)

RECURSIVE buildFaceNeighbors(_, _)
buildFaceNeighbors(faceNeighbors, edges) ==
  IF edges = <<>> THEN faceNeighbors
  ELSE buildFaceNeighbors(IF Len(Head(edges).faces) >= 2
                          THEN neighborPairs(faceNeighbors, Head(edges).faces, 1, 2)
                          ELSE faceNeighbors,
                          Tail(edges))

\* boundsSize.lengthSq() of the box around the vertices.
boundsSizeSq(vertices) ==
  IF vertices = <<>> THEN 0
  ELSE LET size == [a \in 1 .. 3 |-> MaxOf({vertices[x][a] : x \in DOMAIN vertices})
                                       - MinOf({vertices[x][a] : x \in DOMAIN vertices})]
       IN  Dot(size, size)

\* The tests of the flood fill on one neighbour.  The face normals of the
\* model that are not zero all have one length, so normalSum is parallel to
\* the code's sum of unit normals.  dot >= cos(3 deg) is compared on squares (cos^2 = 0.997);
\* distance <= max(scale, 1) * 1e-4 likewise, with planePointSum and
\* faceCentroids holding three times the code's points.
acceptsNeighbor(s, patch, neighborIdx) ==
  LET neighborNormal == s.faceNormals[neighborIdx]
      normal == patch.normalSum
      dot == Dot(normal, neighborNormal)
      offset == Dot(normal, [a \in 1 .. 3 |-> patch.count * s.faceCentroids[neighborIdx][a]
                                                - patch.planePointSum[a]])
      scaleSq == IF boundsSizeSq(s.uniqueVertices) < 1 THEN 1 ELSE boundsSizeSq(s.uniqueVertices)
  IN  /\ s.facePatch[neighborIdx] = NoPatch
      /\ Dot(neighborNormal, neighborNormal) # 0
      /\ dot > 0
      /\ 1000 * dot * dot >= 997 * Dot(normal, normal) * Dot(neighborNormal, neighborNormal)
      /\ offset * offset
           <= (scaleSq * 9 * patch.count * patch.count * Dot(normal, normal)) \div 100000000

joinPatch_KeepCount(s, patch, neighborIdx) ==
  [faces |-> Append(patch.faces, neighborIdx),
   normalSum |-> [a \in 1 .. 3 |-> patch.normalSum[a] + s.faceNormals[neighborIdx][a]],
   planePointSum |-> [a \in 1 .. 3 |-> patch.planePointSum[a] + s.faceCentroids[neighborIdx][a]],
   count |-> patch.count]

\* The patch after an accepted neighbour has been added to it.
joinPatch(s, patch, neighborIdx) ==
  [faces |-> Append(patch.faces, neighborIdx),
   normalSum |-> [a \in 1 .. 3 |-> patch.normalSum[a] + s.faceNormals[neighborIdx][a]],
   planePointSum |-> [a \in 1 .. 3 |-> patch.planePointSum[a] + s.faceCentroids[neighborIdx][a]],
   count |-> patch.count + 1]

\* The callback of neighbors.forEach of the flood fill, on one neighbour.
visitNeighbor(s, patchId, neighborIdx) ==
  IF ~acceptsNeighbor(s, s.patches[patchId], neighborIdx) THEN s
  ELSE [s EXCEPT !.facePatch[neighborIdx] = patchId,
                 !.patches[patchId] = joinPatch(s, s.patches[patchId], neighborIdx),
                 !.queue = Append(@, neighborIdx)]

\* One iteration of the loop over the faces that seeds the patches, up to
\* the flood fill of the new patch.
seedPatch(s, faceIdx) ==
  LET normal == s.faceNormals[faceIdx]
      patchId == Len(s.patches) + 1
      patch == [faces |-> <<faceIdx>>, normalSum |-> normal,
                planePointSum |-> s.faceCentroids[faceIdx], count |-> 1]
  IN  IF s.facePatch[faceIdx] # NoPatch \/ Dot(normal, normal) = 0
      THEN [s EXCEPT !.seedIdx = faceIdx + 1]
      ELSE [s EXCEPT !.pc = "fill", !.patchId = patchId, !.patches = Append(@, patch),
                     !.facePatch[faceIdx] = patchId, !.queue = <<faceIdx>>]

\* ensurePatchEdges(patchId).push(edge); patchEdges is the Map in insertion order.
pushPatchEdge(patchEdges, patchId, edge) ==
  LET hits == {x \in DOMAIN patchEdges : patchEdges[x].patchId = patchId}
  IN  IF hits = {} THEN Append(patchEdges, [patchId |-> patchId, edgeList |-> <<edge>>])
      ELSE [patchEdges EXCEPT ![MinOf(hits)].edgeList = Append(@, edge)]

RECURSIVE pushToPatches(_, _, _)
pushToPatches(patchEdges, patchesArray, edge) ==
  IF patchesArray = <<>> THEN patchEdges
  ELSE pushToPatches(pushPatchEdge(patchEdges, Head(patchesArray), edge), Tail(patchesArray), edge)

RECURSIVE patchesOfFaces(_, _, _)
patchesOfFaces(set, faces, facePatch) ==
  IF faces = <<>> THEN set
  ELSE patchesOfFaces(IF facePatch[Head(faces)] # NoPatch THEN addToSet(set, facePatch[Head(faces)])
                      ELSE set,
                      Tail(faces), facePatch)

\* The callback of edges.forEach that fills patchEdges, for one edge.
attributeEdge(patchEdges, edge, facePatch) ==
  LET patchesArray == patchesOfFaces(<<>>, edge.faces, facePatch)
  IN  IF Len(edge.faces) = 1
      THEN IF facePatch[edge.faces[1]] # NoPatch
           THEN pushPatchEdge(patchEdges, facePatch[edge.faces[1]], edge)
           ELSE patchEdges
      ELSE IF Len(patchesArray) <= 1 THEN patchEdges
      ELSE pushToPatches(patchEdges, patchesArray, edge)

RECURSIVE attributeEdges(_, _, _)
attributeEdges(patchEdges, edges, facePatch) ==
  IF edges = <<>> THEN patchEdges
  ELSE attributeEdges(attributeEdge(patchEdges, Head(edges), facePatch), Tail(edges), facePatch)

\* The callback of patchEdges.forEach: the walker on one edge list, to its end.
RECURSIVE runWalk(_)
runWalk(s) ==
  IF s.pc = "walk" THEN runWalk(walkStep(s))
  ELSE IF s.edgeIdx <= Len(s.edgeList) THEN runWalk(walkPick(s))
  ELSE s.loops

walkPatch(edgeList, vertices) ==
  runWalk([WalkState("mesh", edgeList, vertices, FALSE)
             EXCEPT !.pc = "pick", !.adjacency = buildAdjacency(<<>>, edgeList)])

QA == <<0, 0, 0>>

QB == <<0, 4, 0>>

QC == <<-3, 0, 0>>

QC2 == <<-3, 4, 0>>

QD == <<0, 0, 3>>

QD2 == <<0, 4, 3>>

QM == <<0, 8, 0>>

\* Right triangles with sides 3, 4, 5 around the edge QA-QB: two of a flat
\* rectangle, two of a rectangle folded up by 90 degrees along QA-QB, the
\* first one again seen from the other side, one with a repeated position
\* and one with collinear positions (both with a zero normal).
PatchFaceMenu ==
  <<<<QA, QC, QB>>, <<QB, QC, QC2>>, <<QA, QB, QD>>, <<QB, QD2, QD>>, <<QA, QB, QC>>,
    <<QA, QA, QB>>, <<QA, QB, QM>>>>

RECURSIVE PickPatchFaces(_, _)
PickPatchFaces(picked, x) ==
  IF x > Len(PatchFaceMenu) THEN <<>>
  ELSE (IF x \in picked THEN PatchFaceMenu[x] ELSE <<>>) \o PickPatchFaces(picked, x + 1)

PatchesInit ==
  \E picked \in {S \in SUBSET DOMAIN PatchFaceMenu : Cardinality(S) <= MaxFaces} :
  \E reversed \in BOOLEAN :
    mesh = [pc |-> "vertices",
            positions |-> IF reversed THEN Reverse(PickPatchFaces(picked, 1))
                          ELSE PickPatchFaces(picked, 1),
            uniqueVertices |-> <<>>, originalToUnique |-> <<>>,
            faceNormals |-> <<>>, faceCentroids |-> <<>>, edges |-> <<>>, faceIdx |-> 1,
            faceNeighbors |-> <<>>, facePatch |-> <<>>, patches |-> <<>>, queue |-> <<>>,
            seedIdx |-> 1, patchId |-> 0, neighbors |-> <<>>, neighborIdx |-> 1,
            patchEdges |-> <<>>, patchIdx |-> 1, loops |-> <<>>, loopSummaries |-> <<>>,
            uniqueLoopSummaries |-> <<>>, totalCutLengthMm |-> 0]

\* faceNeighbors and facePatch, once the faces are in.
FaceNeighbors ==
  /\ mesh.pc = "faces" /\ 3 * mesh.faceIdx > Len(mesh.positions)
  /\ mesh' = [mesh EXCEPT
                !.pc = "seed", !.seedIdx = 1,
                !.faceNeighbors = buildFaceNeighbors([f \in DOMAIN mesh.faceNormals |-> <<>>],
                                                     mesh.edges),
                !.facePatch = [f \in DOMAIN mesh.faceNormals |-> NoPatch]]
  /\ UNCHANGED <<m, scan, col, walk, rep, files>>

PatchSeed ==
  /\ mesh.pc = "seed" /\ mesh.seedIdx <= Len(mesh.faceNormals)
  /\ mesh' = seedPatch(mesh, mesh.seedIdx)
  /\ UNCHANGED <<m, scan, col, walk, rep, files>>

\* The test of while (queue.length) and queue.pop(), which takes the last entry.
PatchPop ==
  /\ mesh.pc = "fill"
  /\ mesh' = IF mesh.queue = <<>> THEN [mesh EXCEPT !.pc = "seed", !.seedIdx = mesh.seedIdx + 1]
             ELSE [mesh EXCEPT !.pc = "visit", !.neighborIdx = 1,
                               !.neighbors = mesh.faceNeighbors[mesh.queue[Len(mesh.queue)]],
                               !.queue = SubSeq(@, 1, Len(@) - 1)]
  /\ UNCHANGED <<m, scan, col, walk, rep, files>>

\* One callback of neighbors.forEach, or its end.
PatchVisit ==
  /\ mesh.pc = "visit"
  /\ mesh' = IF mesh.neighborIdx > Len(mesh.neighbors) THEN [mesh EXCEPT !.pc = "fill"]
             ELSE [visitNeighbor(mesh, mesh.patchId, mesh.neighbors[mesh.neighborIdx])
                     EXCEPT !.neighborIdx = mesh.neighborIdx + 1]
  /\ UNCHANGED <<m, scan, col, walk, rep, files>>

PatchesDone ==
  /\ mesh.pc = "seed" /\ mesh.seedIdx > Len(mesh.faceNormals)
  /\ mesh' = [mesh EXCEPT !.pc = "attribute"]
  /\ UNCHANGED <<m, scan, col, walk, rep, files>>

AttributeEdges ==
  /\ mesh.pc = "attribute"
  /\ mesh' = [mesh EXCEPT !.pc = "walk", !.patchIdx = 1,
                          !.patchEdges = attributeEdges(<<>>, mesh.edges, mesh.facePatch)]
  /\ UNCHANGED <<m, scan, col, walk, rep, files>>

\* One iteration of patchEdges.forEach.
PatchWalk ==
  /\ mesh.pc = "walk" /\ mesh.patchIdx <= Len(mesh.patchEdges)
  /\ mesh' = [mesh EXCEPT !.patchIdx = mesh.patchIdx + 1,
                          !.loops = @ \o walkPatch(mesh.patchEdges[mesh.patchIdx].edgeList,
                                                   mesh.uniqueVertices)]
  /\ UNCHANGED <<m, scan, col, walk, rep, files>>

\* loopSummaries, uniqueLoopSummaries and totalCutLengthMm.  id is the
\* position of the summarised loop in `loops`.
PatchTotal ==
  /\ mesh.pc = "walk" /\ mesh.patchIdx > Len(mesh.patchEdges)
  /\ LET loopSummaries == [x \in DOMAIN mesh.loops |->
                             [summarizeLoop(mesh.loops[x], mesh.uniqueVertices) EXCEPT !.id = x]]
         uniqueLoopSummaries == dedupeClosedLoops(loopSummaries)
     IN  mesh' = [mesh EXCEPT !.pc = "done", !.loopSummaries = loopSummaries,
                              !.uniqueLoopSummaries = uniqueLoopSummaries,
                              !.totalCutLengthMm = sumLengths(uniqueLoopSummaries)]
  /\ UNCHANGED <<m, scan, col, walk, rep, files>>

InitPatches ==
  /\ PatchesInit
  /\ m = Idle /\ scan = Idle /\ col = Idle /\ walk = Idle /\ rep = Idle /\ files = Idle

NextPatches ==
  \/ MeshVertices \/ MeshFace \/ FaceNeighbors \/ PatchSeed \/ PatchPop \/ PatchVisit
  \/ PatchesDone \/ AttributeEdges \/ PatchWalk \/ PatchTotal

SpecPatches == InitPatches /\ [][NextPatches]_vars

\* The reported loops (after deduplication) that cross the edge `key`.
ReportedLoopsOn(key) ==
  {x \in DOMAIN mesh.uniqueLoopSummaries :
     key \in Range(Crossings(mesh.loops[mesh.uniqueLoopSummaries[x].id].vertices))}

RECURSIVE SumOfEdgeLengths(_)
SumOfEdgeLengths(edges) ==
  IF edges = <<>> THEN 0
  ELSE (IF ReportedLoopsOn(Head(edges).key) # {} THEN Sqrt(Head(edges).lengthSq) ELSE 0)
         + SumOfEdgeLengths(Tail(edges))

(***************************************************************************)
(* C20.  In the result of analysing one mesh no mesh edge is part of more  *)
(* than one reported loop, and the total cut length is the sum of the      *)
(* lengths of the edges on reported loops, each taken once.                *)
(***************************************************************************)
C20_SharedEdgeCountedOnce ==
  mesh.pc = "done" =>
    /\ \A x \in DOMAIN mesh.edges : Cardinality(ReportedLoopsOn(mesh.edges[x].key)) <= 1
    /\ mesh.totalCutLengthMm = SumOfEdgeLengths(mesh.edges)

\* The number of times face f occurs in the face list of patch p.
TimesInPatch(f, p) ==
  Cardinality({x \in DOMAIN mesh.patches[p].faces : mesh.patches[p].faces[x] = f})

(***************************************************************************)
(* C23.  Under SpecPatches: a step never changes the patch id of a face    *)
(* that has one; at every moment of the segmentation each patch's count is *)
(* the length of its face list and a face is on the list of the patch it   *)
(* is assigned to, once, and on no other list; when the segmentation has   *)
(* ended every face with a non-zero normal is assigned to a patch.         *)
(***************************************************************************)
C23_FaceAssignedOnce ==
  /\ [][\A f \in DOMAIN mesh.facePatch :
          mesh.facePatch[f] # NoPatch =>
            f \in DOMAIN mesh'.facePatch /\ mesh'.facePatch[f] = mesh.facePatch[f]]_vars
  /\ [](/\ \A p \in DOMAIN mesh.patches : mesh.patches[p].count = Len(mesh.patches[p].faces)
        /\ \A f \in DOMAIN mesh.facePatch : \A p \in DOMAIN mesh.patches :
             TimesInPatch(f, p) = IF mesh.facePatch[f] = p THEN 1 ELSE 0)
  /\ [](mesh.pc \in {"attribute", "walk", "done"} =>
          \A f \in DOMAIN mesh.faceNormals :
            Dot(mesh.faceNormals[f], mesh.faceNormals[f]) # 0
              => mesh.facePatch[f] \in DOMAIN mesh.patches)

\* The segmentation has ended with a patch of two faces, a patch of one
\* face and a face with a zero normal, unassigned.
C23_Witness ==
  /\ mesh.pc = "attribute"
  /\ Len(mesh.patches) = 2
  /\ mesh.patches[1].count = 2 /\ mesh.patches[2].count = 1
  /\ \E f \in DOMAIN mesh.facePatch : mesh.facePatch[f] = NoPatch

(***************************************************************************)
(* _parseLwPolyline: the vertex loop over the code-10 values, with the     *)
(* code-20, code-30 and code-42 lists read at the same index.  Vertices    *)
(* are kept in thousandths of a unit, as _bulgeToArc returns its points;   *)
(* on the model's semicircles the last arc point is the segment's end      *)
(* point exactly, so the start of the next segment is read back in whole   *)
(* units.  `applied` records, for each code-10 index, the bulge handed to  *)
(* _bulgeToArc there (0 if none was).                                      *)
(***************************************************************************)
\* The values the vertex loop of _parseLwPolyline reads at index i (counted
\* from 0) of the code-10, code-20, code-30 and code-42 lists.
lwFields(data, i) ==
  LET ys == FieldValues(data, 20)
      zs == FieldValues(data, 30)
      bulges == FieldValues(data, 42)
      elevation == getNumber(data, 38, 0, 0)
  IN  [x |-> ParseFloat(FieldValues(data, 10)[i + 1]),
       y |-> IF i < Len(ys) /\ ys[i + 1] # "" THEN ParseFloat(ys[i + 1]) ELSE 0,
       z |-> IF i < Len(zs) /\ zs[i + 1] # "" THEN ParseFloat(zs[i + 1]) ELSE elevation,
       bulge |-> IF i < Len(bulges) /\ bulges[i + 1] # "" THEN ParseFloat(bulges[i + 1]) ELSE 0]

\* The rest of the iteration: the vertices and the bulges applied so far.
lwVertex(vertices, applied, v) ==
  LET start == [a \in 1 .. 3 |-> vertices[Len(vertices)][a] \div 1000]
      arcPoints == bulgeToArc(start, <<v.x, v.y, v.z>>, v.bulge).points
  IN  IF ~IsFinite(v.x) \/ ~IsFinite(v.y) \/ ~IsFinite(v.z)
      THEN [vertices |-> vertices, applied |-> Append(applied, 0)]
      ELSE IF IsFinite(v.bulge) /\ v.bulge # 0 /\ Len(vertices) >= 1
      THEN [vertices |-> vertices \o arcPoints, applied |-> Append(applied, v.bulge)]
      ELSE [vertices |-> Append(vertices, <<v.x * 1000, v.y * 1000, v.z * 1000>>),
            applied |-> Append(applied, 0)]

\* _parseLwPolyline after the vertex loop.
parseLwPolyline(pairs, index, layers, vertices, applied) ==
  LET c == collectEntityData(pairs, index)
      flag == getInteger(c.data, 70, 0, 0)
      closed == flag % 2 = 1
      line == createLine(vertices, closed, resolveColor(c.data, layers))
  IN  IF vertices = <<>> THEN [object |-> NoObject, next |-> c.next, applied |-> applied]
      ELSE [object |-> applyLayerToObject(line, c.data), next |-> c.next, applied |-> applied]

MaxLwVertices == 3

\* The corners of a square of side 10, walked round.
LwPath == <<<<"0", "0">>, <<"10", "0">>, <<"10", "10">>, <<"0", "10">>, <<"0", "0">>, <<"10", "0">>>>

\* The pairs of vertex number x: its coordinates, then its bulge if it has one.
LwVertex(x, bulge) ==
  <<Pair(10, LwPath[x][1]), Pair(20, LwPath[x][2])>>
    \o (IF bulge = "none" THEN <<>> ELSE <<Pair(42, bulge)>>)

LwEntities ==
  {<<Pair(0, "LWPOLYLINE"), Pair(90, "3")>>
     \o Flatten([x \in DOMAIN bulges |-> LwVertex(x, bulges[x])]) \o <<Pair(0, "ENDSEC")>> :
     bulges \in {b \in SeqsUpTo({"none", "0", "1", "-1"}, MaxLwVertices) : Len(b) >= 2}}

\* One iteration of the vertex loop.
LwVertexStep ==
  /\ m.pc = "lwpolyline"
  /\ m.i < Len(FieldValues(collectEntityData(m.pairs, 2).data, 10))
  /\ \E v \in {lwFields(collectEntityData(m.pairs, 2).data, m.i)} :
     \E r \in {lwVertex(m.vertices, m.applied, v)} :
       m' = [m EXCEPT !.i = m.i + 1, !.vertices = r.vertices, !.applied = r.applied]
  /\ UNCHANGED <<scan, col, mesh, walk, rep, files>>

LwCall ==
  /\ m.pc = "lwpolyline"
  /\ m.i >= Len(FieldValues(collectEntityData(m.pairs, 2).data, 10))
  /\ m' = [m EXCEPT !.pc = "done",
                    !.lw = parseLwPolyline(m.pairs, 2, <<>>, m.vertices, m.applied)]
  /\ UNCHANGED <<scan, col, mesh, walk, rep, files>>

InitLw ==
  /\ \E pairs \in LwEntities :
       m = [pc |-> "lwpolyline", pairs |-> pairs, i |-> 0, vertices |-> <<>>, applied |-> <<>>,
            lw |-> [object |-> NoObject, next |-> 0, applied |-> <<>>]]
  /\ scan = Idle /\ col = Idle /\ mesh = Idle /\ walk = Idle /\ rep = Idle /\ files = Idle

NextLw == LwVertexStep \/ LwCall

SpecLw == InitLw /\ [][NextLw]_vars

\* The positions in the entity's pairs of its code-10 pairs, in order.
VertexStarts(data) ==
  LET at == {x \in DOMAIN data : data[x].code = 10}
      RECURSIVE ordered(_)
      ordered(S) == IF S = {} THEN <<>> ELSE <<MinOf(S)>> \o ordered(S \ {MinOf(S)})
  IN  ordered(at)

\* The code-42 value between the coordinates of vertex i and those of the
\* next vertex, 0 if there is none.
OwnBulge(data, i) ==
  LET starts == VertexStarts(data)
      until == IF i < Len(starts) THEN starts[i + 1] ELSE Len(data) + 1
      own == {x \in starts[i] .. until - 1 : data[x].code = 42}
  IN  IF own = {} THEN 0 ELSE ParseFloat(data[MinOf(own)].value)

(***************************************************************************)
(* C21.  For every vertex i after the first of an LWPOLYLINE, the bulge    *)
(* applied to the segment ending at vertex i is the code-42 value that     *)
(* vertex i carries in the pair stream, and a vertex without a code-42     *)
(* value gets a straight segment.                                          *)
(***************************************************************************)
C21_BulgeOfItsVertex ==
  m.pc = "done" =>
    LET data == collectEntityData(m.pairs, 2).data
    IN  \A i \in 2 .. Len(VertexStarts(data)) : m.lw.applied[i] = OwnBulge(data, i)

(***************************************************************************)
(* analyzeSheetMetal on a group of line objects without DXF metadata: the  *)
(* traverse callback analyses each child on its own (analyzeLineGeometry)  *)
(* and mergeAnalyses joins the results; MergeAnalysis and MergeClassify    *)
(* are the steps of SpecMerge.  A child is its type and its positions.     *)
(***************************************************************************)
\* analyzeLineGeometry after the null returns (analyzeLine with loops = <<>>).
analyzeLineGeometry(positions, isClosedHint) ==
  LET r == analyzeLine(positions, isClosedHint)
      deduped == dedupeClosedLoops(<<summarizeLoop(r.loops[1], r.vertices)>>)
  IN  [createEmptyAnalysis EXCEPT
         !.loops = deduped,
         !.totalCutLengthMm = sumLengths(deduped),
         !.flatPattern = [LikelyFlat EXCEPT !.aspectRatio = 0]]

LineChild(a, b) == [type |-> "Line", positions |-> <<Corners[a], Corners[b]>>]

\* The four sides of the rectangle of Corners as LINE entities, and the
\* same rectangle as one closed polyline.
ChildLines ==
  {LineChild(1, 2), LineChild(2, 3), LineChild(3, 4), LineChild(4, 1),
   [type |-> "LineLoop", positions |-> Corners]}

MaxChildren == 4

LinesInit ==
  \E children \in SeqsUpTo(ChildLines, MaxChildren) :
    rep = [pc |-> "traverse", children |-> children, childIdx |-> 1, n |-> 1,
           meshAnalyses |-> <<>>, combined |-> createEmptyAnalysis]

\* The traverse callback on one child (child.isLine).
TraverseChild ==
  /\ rep.pc = "traverse" /\ rep.childIdx <= Len(rep.children)
  /\ LET child == rep.children[rep.childIdx]
         isClosed == child.type = "LineLoop"
     IN  rep' = [rep EXCEPT
                   !.childIdx = rep.childIdx + 1,
                   !.meshAnalyses = IF analyzeLine(child.positions, isClosed).loops = <<>> THEN @
                                    ELSE Append(@, analyzeLineGeometry(child.positions, isClosed))]
  /\ UNCHANGED <<m, scan, col, mesh, walk, files>>

\* After the traversal: the empty analysis, or mergeAnalyses(perMesh).
TraverseDone ==
  /\ rep.pc = "traverse" /\ rep.childIdx > Len(rep.children)
  /\ rep' = IF rep.meshAnalyses = <<>> THEN [rep EXCEPT !.pc = "done", !.combined = createEmptyAnalysis]
            ELSE [rep EXCEPT !.pc = "loop", !.n = 1, !.combined = createEmptyAnalysis]
  /\ UNCHANGED <<m, scan, col, mesh, walk, files>>

InitLines ==
  /\ LinesInit
  /\ m = Idle /\ scan = Idle /\ col = Idle /\ mesh = Idle /\ walk = Idle /\ files = Idle

NextLines == TraverseChild \/ TraverseDone \/ MergeAnalysis \/ MergeClassify

SpecLines == InitLines /\ [][NextLines]_vars

(***************************************************************************)
(* C22.  Four LINE entities that are the four sides of a rectangle, in any *)
(* order, are reported as one closed loop whose length is the rectangle's  *)
(* perimeter, and as no open chain.                                        *)
(***************************************************************************)
C22_LinesJoinedIntoLoop ==
  /\ rep.pc = "done"
  /\ Len(rep.children) = 4
  /\ Range(rep.children) = {LineChild(1, 2), LineChild(2, 3), LineChild(3, 4), LineChild(4, 1)}
  => /\ Len(rep.combined.loops) = 1
     /\ rep.combined.loops[1].closed
     /\ rep.combined.loops[1].lengthMm = 14
     /\ rep.combined.openLoops = <<>>

(***************************************************************************)
(* Block references.  SpecBlocks runs parse on drawings made of a BLOCKS   *)
(* section that defines B1 (a line) and B2 (a line and an INSERT of B1),   *)
(* in either order, and an ENTITIES section with INSERTs, before or after  *)
(* the BLOCKS section.                                                     *)
(***************************************************************************)
BlockB1 ==
  <<Pair(0, "BLOCK"), Pair(2, "B1"), Pair(0, "LINE"), Pair(10, "0"), Pair(11, "1"),
    Pair(0, "ENDBLK")>>

BlockB2 ==
  <<Pair(0, "BLOCK"), Pair(2, "B2"), Pair(0, "LINE"), Pair(10, "0"), Pair(11, "2"),
    Pair(0, "INSERT"), Pair(2, "B1"), Pair(10, "5"), Pair(0, "ENDBLK")>>

InsertB2 == <<Pair(0, "INSERT"), Pair(2, "B2"), Pair(10, "3")>>

InsertB3 == <<Pair(0, "INSERT"), Pair(2, "B3")>>

BlockDrawings ==
  {IF blocksFirst THEN blocks \o entities ELSE entities \o blocks :
     blocksFirst \in BOOLEAN,
     blocks \in {<<SECTION, Pair(2, "BLOCKS")>> \o defs \o <<ENDSEC>> :
                   defs \in {BlockB1, BlockB1 \o BlockB2, BlockB2 \o BlockB1}},
     entities \in {<<SECTION, Pair(2, "ENTITIES")>> \o Flatten(ents) \o <<ENDSEC>> :
                     ents \in SeqsUpTo({GoodLine, InsertB1, InsertB2, InsertB3}, MaxEntities)}}

InitBlocks ==
  /\ \E pairs \in BlockDrawings : m = ParseCall(TRUE, pairs)
  /\ scan = Idle /\ col = Idle /\ mesh = Idle /\ walk = Idle /\ rep = Idle /\ files = Idle

NextBlocks == ParseEnter \/ StepSections \/ StepBlocks \/ StepBlockEntities \/ StepEntities

SpecBlocks == InitBlocks /\ [][NextBlocks]_vars

IsMarker(pairs, x, word) == pairs[x].code = 0 /\ TrimUpper(pairs[x].value) = word

\* The names the BLOCK entries of the drawing define.
DefinedBlocks(pairs) ==
  {getString(collectEntityData(pairs, x + 1).data, 2, 0, NullStr) :
     x \in {y \in DOMAIN pairs : IsMarker(pairs, y, "BLOCK")}}

\* The INSERTs at positions from .. to that name a defined block.
ResolvableInserts(pairs, from, to) ==
  {x \in from .. to :
     /\ IsMarker(pairs, x, "INSERT")
     /\ getString(collectEntityData(pairs, x + 1).data, 2, 0, NullStr) \in DefinedBlocks(pairs)}

\* The first position after x holding the marker `word`.
MarkerAfter(pairs, x, word) == MinOf({y \in x .. Len(pairs) : IsMarker(pairs, y, word)})

Instances(objects) == {x \in DOMAIN objects : objects[x].kind = "Group"}

(***************************************************************************)
(* C24.  When parse has ended, the ENTITIES group holds one instance for   *)
(* every INSERT of the ENTITIES section that names a block the BLOCKS      *)
(* section defines, and the template of every block holds one instance for *)
(* every such INSERT inside the block's definition, wherever the           *)
(* referenced block is defined.                                            *)
(***************************************************************************)
C24_InsertEmitsInstance ==
  Finished(m) =>
    LET pairs == m.pairs
        entities == CHOOSE x \in DOMAIN pairs :
                      IsMarker(pairs, x, "SECTION") /\ pairs[x + 1] = Pair(2, "ENTITIES")
    IN  /\ Cardinality(Instances(m.group))
             = Cardinality(ResolvableInserts(pairs, entities, MarkerAfter(pairs, entities, "ENDSEC")))
        /\ \A b \in {y \in DOMAIN pairs : IsMarker(pairs, y, "BLOCK")} :
             LET name == getString(collectEntityData(pairs, b + 1).data, 2, 0, NullStr)
             IN  /\ name \in DOMAIN m.blocks
                 /\ Cardinality(Instances(m.blocks[name]))
                      = Cardinality(ResolvableInserts(pairs, b, MarkerAfter(pairs, b, "ENDBLK")))

(***************************************************************************)
(* SpecLoadDxf: loadDxf of dxfReader.js on one drawing.  The loader is     *)
(* made and parses the text, the metadata is what getMetadata hands        *)
(* out, and analyzeSheetMetal(group, metadata) chooses the analysis by     *)
(* metadata.kind.  The drawings have no HEADER, so the unit scale is 1 and *)
(* every child's world matrix is the identity.                             *)
(***************************************************************************)
LineSide == <<Pair(0, "LINE"), Pair(10, "1"), Pair(11, "1"), Pair(21, "1")>>

LineTop == <<Pair(0, "LINE"), Pair(10, "1"), Pair(20, "1"), Pair(21, "1")>>

LoadMenu == {GoodLine, LineSide, LineTop, ClosedPolyline, DegenerateLine}

MaxLoadEntities == 3

LoadDrawings == {Entities(Flatten(ents)) : ents \in SeqsUpTo(LoadMenu, MaxLoadEntities)}

\* metadata.kind: undefined on an object that has no such property.  No
\* metadata (null) is the record without fields.
kindOf(metadata) == IF "kind" \in DOMAIN metadata THEN metadata.kind ELSE "undefined"

\* analyzeSheetMetal(group, metadata): the analysis that makes the report.
analysisFor(metadata) ==
  IF kindOf(metadata) = "dxf" THEN "analyzeDxfEntities" ELSE "traverse"

\* The line objects group.traverse visits, as type and positions.
lineChildren(group) ==
  LET list == Primitives(group)
  IN  [x \in DOMAIN list |-> [type |-> list[x].kind, positions |-> list[x].verts]]

RECURSIVE dxfTraverse(_)
dxfTraverse(s) ==
  IF s.n > Len(s.children) THEN dxfFinish(s)
  ELSE dxfTraverse([dxfChild(s, s.n, s.children[s.n]) EXCEPT !.n = s.n + 1])

\* analyzeDxfEntities(group, metadata) in one step.
analyzeDxfEntities(children) ==
  dxfTraverse(DxfInit([x \in DOMAIN children |->
                        [type |-> children[x].type, points |-> children[x].positions]])).analysis

\* loadDxf from the end of loader.parse(text) up to the call of
\* analyzeSheetMetal; it throws when the group has nothing to draw.
LoadDxf ==
  /\ rep.pc = "loadDxf" /\ Finished(m)
  /\ rep' = IF m.pc = "failed" \/ Primitives(m.group) = <<>>
            THEN [rep EXCEPT !.pc = "failed"]
            ELSE [rep EXCEPT !.pc = "analyzeSheetMetal", !.metadata = getMetadata(m),
                             !.children = lineChildren(m.group)]
  /\ UNCHANGED <<m, scan, col, mesh, walk, files>>

\* analyzeSheetMetal's dispatch on the metadata it is given.
AnalyzeSheetMetal ==
  /\ rep.pc = "analyzeSheetMetal"
  /\ rep' = IF analysisFor(rep.metadata) = "analyzeDxfEntities"
            THEN [rep EXCEPT !.pc = "done", !.analysis = "analyzeDxfEntities",
                             !.combined = analyzeDxfEntities(rep.children)]
            ELSE [rep EXCEPT !.pc = "traverse", !.analysis = "traverse"]
  /\ UNCHANGED <<m, scan, col, mesh, walk, files>>

InitLoadDxf ==
  /\ \E pairs \in LoadDrawings : m = newLoader(TRUE, pairs)
  /\ rep = [pc |-> "loadDxf", metadata |-> <<>>, children |-> <<>>, analysis |-> "none",
            childIdx |-> 1, n |-> 1, meshAnalyses |-> <<>>, combined |-> createEmptyAnalysis]
  /\ scan = Idle /\ col = Idle /\ mesh = Idle /\ walk = Idle /\ files = Idle

NextLoadDxf ==
  \/ ParseEnter \/ StepSections \/ StepEntities \/ StepPolyline
  \/ LoadDxf \/ AnalyzeSheetMetal \/ TraverseChild \/ TraverseDone \/ MergeAnalysis \/ MergeClassify

SpecLoadDxf == InitLoadDxf /\ [][NextLoadDxf]_vars

(***************************************************************************)
(* C25.  Once loadDxf has passed the loader's metadata to                  *)
(* analyzeSheetMetal, the report is the one analyzeDxfEntities makes.      *)
(***************************************************************************)
C25_EntityAwareAnalysis ==
  rep.pc \in {"traverse", "loop", "done"} => rep.analysis = "analyzeDxfEntities"

(***************************************************************************)
(* C26.  In the edge map of analyzeGeometry no face index occurs twice in  *)
(* the face list of one edge, and every edge summarizeBends counts as a    *)
(* bend has two different faces whose normals are both non-zero.           *)
(***************************************************************************)
CountedAsBend(edge) ==
  bendsOfEdge(createEmptyBendStats, edge, mesh.faceNormals).bendCount = 1

C26_BendFacesDistinct ==
  mesh.pc \in {"bends", "done"} =>
    \A x \in DOMAIN mesh.edges :
      LET faces == mesh.edges[x].faces
      IN  /\ \A i, j \in DOMAIN faces : i # j => faces[i] # faces[j]
          /\ CountedAsBend(mesh.edges[x]) =>
               /\ faces[1] # faces[2]
               /\ mesh.faceNormals[faces[1]] # <<0, 0, 0>>
               /\ mesh.faceNormals[faces[2]] # <<0, 0, 0>>

(***************************************************************************)
(* SpecSections: parse on drawings whose leading sections are well formed  *)
(* or lack the ENDTAB of the layer table or the ENDBLK of a block, with an *)
(* ENTITIES section after them.                                            *)
(***************************************************************************)
OpenTableSection ==
  <<SECTION, Pair(2, "TABLES"), Pair(0, "TABLE"), Pair(2, "LAYER"), Pair(0, "LAYER"),
    Pair(2, "L1"), Pair(62, "1"), ENDSEC>>

OpenBlockSection ==
  <<SECTION, Pair(2, "BLOCKS"), Pair(0, "BLOCK"), Pair(2, "B1"), Pair(0, "LINE"),
    Pair(10, "0"), Pair(11, "1"), ENDSEC>>

SectionMenu ==
  {HeaderSection, ObjectsSection, TablesSection, BlocksSection, OpenTableSection,
   OpenBlockSection}

MaxSections == 2

SectionDrawings ==
  {Flatten(lead) \o <<SECTION, Pair(2, "ENTITIES")>> \o Flatten(ents) \o <<ENDSEC, Pair(0, "EOF")>> :
     lead \in SeqsUpTo(SectionMenu, MaxSections),
     ents \in SeqsUpTo({GoodLine, ClosedPolyline, InsertB1}, MaxEntities)}

InitSections ==
  /\ \E pairs \in SectionDrawings : m = ParseCall(TRUE, pairs)
  /\ scan = Idle /\ col = Idle /\ mesh = Idle /\ walk = Idle /\ rep = Idle /\ files = Idle

SpecSections == InitSections /\ [][Next]_vars

\* The first ENDSEC marker at or after a position; without one, the last pair.
FirstEndsec(pairs, from) ==
  LET found == {x \in from .. Len(pairs) : IsMarker(pairs, x, "ENDSEC")}
  IN  IF found = {} THEN Len(pairs) ELSE MinOf(found)

(***************************************************************************)
(* C27.  When the walker of a HEADER, TABLES, BLOCKS or ENTITIES section   *)
(* returns to _parseSections, its cursor is no further than one past the   *)
(* first ENDSEC at or after the position where the walker started.         *)
(***************************************************************************)
C27_WalkerStopsAtEndsec ==
  [][m.pc \in {"header", "tables", "blocks", "entities"} /\ m'.pc = "sections"
       => m'.i <= FirstEndsec(m.pairs, m.i + 2) + 1]_vars

(***************************************************************************)
(* C28.  The candidate edge graph: its vertices are the end points of the  *)
(* edges of the list, the degree of a vertex is the number of edge ends at *)
(* it (an edge from a vertex to itself has both ends there).  When every   *)
(* vertex has degree 2, the walk ends with closed loops only, one for each *)
(* connected component of the graph, in every order of the list and every  *)
(* orientation of its edges.                                               *)
(***************************************************************************)
GraphVertices == UNION {{walk.edgeList[x].a, walk.edgeList[x].b} : x \in DOMAIN walk.edgeList}

EdgeEnds(v) ==
  Cardinality({x \in DOMAIN walk.edgeList : walk.edgeList[x].a = v})
    + Cardinality({x \in DOMAIN walk.edgeList : walk.edgeList[x].b = v})

Linked(v) ==
  {v} \cup {w \in GraphVertices :
              \E x \in DOMAIN walk.edgeList : {walk.edgeList[x].a, walk.edgeList[x].b} = {v, w}}

RECURSIVE ComponentOf(_)
ComponentOf(S) ==
  LET T == S \cup UNION {Linked(v) : v \in S}
  IN  IF T = S THEN S ELSE ComponentOf(T)

Components == {ComponentOf({v}) : v \in GraphVertices}

C28_DegreeTwoLoops ==
  (walk.pc = "done" /\ walk.mode = "mesh" /\ \A v \in GraphVertices : EdgeEnds(v) = 2) =>
    /\ \A x \in DOMAIN walk.loops : walk.loops[x].closed
    /\ Len(walk.loops) = Cardinality(Components)

\* A triangle whose second listed edge is stored against the direction of
\* the walk, extracted as one closed loop.
C28_Witness ==
  /\ walk.pc = "done" /\ walk.mode = "mesh"
  /\ \A v \in GraphVertices : EdgeEnds(v) = 2
  /\ Cardinality(GraphVertices) = 3 /\ Len(walk.edgeList) = 3
  /\ walk.edgeList[1].b = walk.edgeList[2].b
  /\ Len(walk.loops) = 1 /\ walk.loops[1].closed

(***************************************************************************)
(* C29.  An edge list that forms one simple open path (one component, two  *)
(* vertices of degree 1, the others of degree 2) is extracted as exactly   *)
(* one open chain, whose length is the sum of the lengths of the edges, in *)
(* every order of the list and every orientation of its edges.             *)
(***************************************************************************)
IsSimplePath ==
  /\ walk.edgeList # <<>>
  /\ Cardinality(Components) = 1
  /\ Cardinality({v \in GraphVertices : EdgeEnds(v) = 1}) = 2
  /\ \A v \in GraphVertices : EdgeEnds(v) \in {1, 2}

RECURSIVE EdgeLengthsFrom(_)
EdgeLengthsFrom(x) ==
  IF x > Len(walk.edgeList) THEN 0
  ELSE distanceTo(walk.vertices[walk.edgeList[x].a], walk.vertices[walk.edgeList[x].b])
         + EdgeLengthsFrom(x + 1)

C29_PathIsOneChain ==
  (walk.pc = "done" /\ walk.mode = "mesh" /\ IsSimplePath) =>
    /\ Len(walk.loops) = 1
    /\ ~walk.loops[1].closed
    /\ walk.loopSummaries[1].lengthMm = EdgeLengthsFrom(1)

(***************************************************************************)
(* SpecCoords: _parseEntity on one POINT, TEXT, DIMENSION or 3DFACE whose  *)
(* coordinate fields are present, missing or unparsable.  A Vector3 is a   *)
(* triple; a coordinate is a number or NaN.                                *)
(***************************************************************************)
\* Vector3.equals: component-wise ===, false on NaN.
vectorEquals(a, b) == \A x \in 1 .. 3 : a[x] # NaN /\ b[x] # NaN /\ a[x] = b[x]

isFiniteVector(v) == \A x \in 1 .. 3 : IsFinite(v[x])

parsePoint(pairs, index, layers) ==
  LET c == collectEntityData(pairs, index)
      point == <<getNumber(c.data, 10, 0, NaN), getNumber(c.data, 20, 0, NaN),
                 getNumber(c.data, 30, 0, 0)>>
      points == [NoObject EXCEPT !.kind = "Points", !.verts = <<point>>,
                                 !.color = resolveColor(c.data, layers)]
  IN  IF ~isFiniteVector(point) THEN [object |-> NoObject, next |-> c.next]
      ELSE [object |-> applyLayerToObject(points, c.data), next |-> c.next]

parseText(pairs, index, layers) ==
  LET c == collectEntityData(pairs, index)
      position == <<getNumber(c.data, 10, 0, 0), getNumber(c.data, 20, 0, 0),
                    getNumber(c.data, 30, 0, 0)>>
      points == [NoObject EXCEPT !.kind = "Points", !.verts = <<position>>,
                                 !.color = resolveColor(c.data, layers)]
  IN  [object |-> applyLayerToObject(points, c.data), next |-> c.next]

parseDimension(pairs, index, layers) ==
  LET c == collectEntityData(pairs, index)
      x13 == getNumber(c.data, 13, 0, NaN)
      y13 == getNumber(c.data, 23, 0, NaN)
      z13 == getNumber(c.data, 33, 0, 0)
      x14 == getNumber(c.data, 14, 0, NaN)
      y14 == getNumber(c.data, 24, 0, NaN)
      z14 == getNumber(c.data, 34, 0, 0)
      line == createLine(<<<<x13, y13, z13>>, <<x14, y14, z14>>>>, FALSE,
                         resolveColor(c.data, layers))
  IN  IF ~IsFinite(x13) \/ ~IsFinite(y13) \/ ~IsFinite(x14) \/ ~IsFinite(y14)
      THEN [object |-> NoObject, next |-> c.next]
      ELSE [object |-> applyLayerToObject(line, c.data), next |-> c.next]

parse3dFace(pairs, index, layers) ==
  LET c == collectEntityData(pairs, index)
      corner(n) == <<getNumber(c.data, 10 + n, 0, NaN), getNumber(c.data, 20 + n, 0, NaN),
                     getNumber(c.data, 30 + n, 0, NaN)>>
      v1 == corner(0)
      v2 == corner(1)
      v3 == corner(2)
      v4 == corner(3)
      vertices == SelectSeq(<<v1, v2, v3, v4>>, isFiniteVector)
      triangles == <<v1, v2, v3>>
                     \o (IF ~vectorEquals(v4, v3) /\ ~vectorEquals(v4, v2)
                         THEN <<v1, v3, v4>> ELSE <<>>)
      face == [NoObject EXCEPT !.kind = "Mesh", !.verts = triangles,
                               !.color = resolveColor(c.data, layers)]
  IN  IF Len(vertices) < 3 THEN [object |-> NoObject, next |-> c.next]
      ELSE [object |-> applyLayerToObject(face, c.data), next |-> c.next]

\* A coordinate field: left out, a number, or a value parseFloat rejects.
Field(code, token) == IF token = "none" THEN <<>> ELSE <<Pair(code, token)>>

FieldTokens == {"none", "1", "x"}

FacePositions == <<<<"0", "0", "0">>, <<"1", "0", "0">>, <<"1", "1", "0">>, <<"0", "1", "0">>>>

\* Corner n of a 3DFACE (codes 10 + n, 20 + n, 30 + n), written in full,
\* left out, without its z, with an unparsable x, or as a copy of corner 2.
FaceCorner(n, shape) ==
  LET at == FacePositions[IF shape = "copy" THEN 3 ELSE n + 1]
  IN  CASE shape = "absent" -> <<>>
        [] shape = "noZ" -> <<Pair(10 + n, at[1]), Pair(20 + n, at[2])>>
        [] shape = "badX" -> <<Pair(10 + n, "x"), Pair(20 + n, at[2]), Pair(30 + n, at[3])>>
        [] OTHER -> <<Pair(10 + n, at[1]), Pair(20 + n, at[2]), Pair(30 + n, at[3])>>

CornerShapes == {"given", "absent", "noZ", "badX"}

CoordEntities ==
  {<<Pair(0, "POINT")>> \o Field(10, x) \o Field(20, y) \o Field(30, z) \o <<ENDSEC>> :
     x, y, z \in FieldTokens}
  \cup
  {<<Pair(0, "TEXT"), Pair(1, "A")>> \o Field(10, x) \o Field(20, y) \o Field(30, z) \o <<ENDSEC>> :
     x, y, z \in FieldTokens}
  \cup
  {<<Pair(0, "DIMENSION")>> \o Field(13, x13) \o Field(23, y13) \o Field(14, x14)
     \o Field(24, y14) \o Field(34, z14) \o <<ENDSEC>> :
     x13, y13, x14, y14 \in FieldTokens, z14 \in {"none", "x"}}
  \cup
  {<<Pair(0, "3DFACE")>> \o FaceCorner(0, s1) \o FaceCorner(1, s2) \o FaceCorner(2, s3)
     \o FaceCorner(3, s4) \o <<ENDSEC>> :
     s1, s2, s3 \in CornerShapes, s4 \in CornerShapes \cup {"copy"}}

\* _parseEntity on the entity at the head of the pairs.
EntityCall ==
  /\ m.pc = "entity"
  /\ LET type == TrimUpper(m.pairs[1].value)
     IN  m' = [m EXCEPT
                 !.pc = "done",
                 !.result = CASE type = "POINT" -> parsePoint(m.pairs, 2, <<>>)
                              [] type = "TEXT" -> parseText(m.pairs, 2, <<>>)
                              [] type = "DIMENSION" -> parseDimension(m.pairs, 2, <<>>)
                              [] type = "3DFACE" -> parse3dFace(m.pairs, 2, <<>>)
                              [] OTHER -> [object |-> NoObject,
                                           next |-> collectEntityData(m.pairs, 2).next]]
  /\ UNCHANGED <<scan, col, mesh, walk, rep, files>>

InitCoords ==
  /\ \E pairs \in CoordEntities :
       m = [pc |-> "entity", pairs |-> pairs, result |-> [object |-> NoObject, next |-> 0]]
  /\ scan = Idle /\ col = Idle /\ mesh = Idle /\ walk = Idle /\ rep = Idle /\ files = Idle

NextCoords == EntityCall

SpecCoords == InitCoords /\ [][NextCoords]_vars

(***************************************************************************)
(* C30.  Every coordinate of every vertex of an emitted primitive is a     *)
(* finite number.                                                          *)
(***************************************************************************)
C30_FiniteCoordinates ==
  m.pc = "done" =>
    \A x \in DOMAIN m.result.object.verts : isFiniteVector(m.result.object.verts[x])

=============================================================================
